---- MODULE Spec2Model ----
(***************************************************************************)
(* A2DP offload session of the audio HAL (hal/audio_extn/a2dp.c).          *)
(*                                                                         *)
(* The global `struct a2dp_data a2dp` is the record variable a2dp, the     *)
(* ALSA mixer reached through a2dp.adev->mixer is the function mixer.      *)
(* Every C function is an operator from one "world" (the struct, the       *)
(* mixer, the trace of external calls, the return value) to the SET of     *)
(* worlds the call can end in: the answers of the Bluetooth IPC library,   *)
(* of dlopen and of the mixer writes are the only nondeterminism.          *)
(*                                                                         *)
(* The suspend handler of audio_extn_a2dp_set_parameters releases          *)
(* adev->lock around every check_a2dp_restore call; it is split at these   *)
(* points (pc, uc_left) and the other entry points may run in between.     *)
(***************************************************************************)
EXTENDS Integers, Sequences, FiniteSets, Bags, TLC

(* ------------------------------ bounds -------------------------------- *)
\* start_playback is not offered once this many session requests are active
MaxSessions == 2
\* largest number of PCM playback use-cases routed to A2DP in usecase_list
MaxUsecases == 1
\* largest number of mixer writes the driver rejects in one run
MaxRejectedWrites == 1
\* use-cases on A2DP in the runs that follow the handler through its windows
MaxHandlerUsecases == 3
\* largest number of A2dpSuspended handlers in flight at once: one in a
\* window of its walk, the others called by other threads meanwhile
MaxHandlers == 2
\* largest SBC channel-mode index, SBC allocation flag and LDAC channel mode
\* the Bluetooth stack hands back in the runs that vary the codec parameters
MaxSbcChannelIndex == 4
MaxSbcAlloc == 2
MaxLdacChannelMode == 4

(* ------------------------- program constants -------------------------- *)
ENOSYS == 38
ETIMEDOUT == 110
ENOENT == 2
ENOMEM == 12
EACCES == 13
EINVAL == 22

ENC_MEDIA_FMT_AAC == 69030
ENC_MEDIA_FMT_APTX == 78335
ENC_MEDIA_FMT_APTX_HD == 78336
ENC_MEDIA_FMT_LDAC == 78372
ENC_MEDIA_FMT_SBC == 68594
MEDIA_FMT_SBC_ALLOCATION_METHOD_LOUDNESS == 0
MEDIA_FMT_SBC_ALLOCATION_METHOD_SNR == 1
MEDIA_FMT_AAC_AOT_LC == 2
MEDIA_FMT_AAC_AOT_SBR == 5
MEDIA_FMT_AAC_AOT_PS == 29
MEDIA_FMT_SBC_CHANNEL_MODE_MONO == 1
MEDIA_FMT_SBC_CHANNEL_MODE_STEREO == 2
MEDIA_FMT_SBC_CHANNEL_MODE_DUAL_MONO == 8
MEDIA_FMT_SBC_CHANNEL_MODE_JOINT_STEREO == 9
PCM_CHANNEL_L == 1
PCM_CHANNEL_R == 2
PCM_CHANNEL_C == 3
DEFAULT_ENCODER_BIT_FORMAT == 16
DEFAULT_ENCODER_LATENCY == 200
ENCODER_LATENCY_AAC == 70
ENCODER_LATENCY_APTX == 40
ENCODER_LATENCY_APTX_HD == 20
ENCODER_LATENCY_LDAC == 40
ENCODER_LATENCY_SBC == 10
DEFAULT_SINK_LATENCY_AAC == 180
DEFAULT_SINK_LATENCY_APTX == 160
DEFAULT_SINK_LATENCY_APTX_HD == 180
DEFAULT_SINK_LATENCY_LDAC == 180
DEFAULT_SINK_LATENCY_SBC == 140

MIXER_ENC_CONFIG_BLOCK == "SLIM_7_RX Encoder Config"
MIXER_ENC_BIT_FORMAT == "AFE Input Bit Format"
MIXER_SCRAMBLER_MODE == "AFE Scrambler Mode"
MIXER_SAMPLE_RATE == "BT SampleRate"
MIXER_AFE_IN_CHANNELS == "AFE Input Channels"

\* enc_codec_t; ENC_MEDIA_FMT_NONE (0) is also stored in bt_encoder_format
ENC_CODEC_TYPE_INVALID == "ENC_CODEC_TYPE_INVALID"
ENC_CODEC_TYPE_AAC == "ENC_CODEC_TYPE_AAC"
ENC_CODEC_TYPE_SBC == "ENC_CODEC_TYPE_SBC"
ENC_CODEC_TYPE_APTX == "ENC_CODEC_TYPE_APTX"
ENC_CODEC_TYPE_APTX_HD == "ENC_CODEC_TYPE_APTX_HD"
ENC_CODEC_TYPE_LDAC == "ENC_CODEC_TYPE_LDAC"
ENC_MEDIA_FMT_NONE == "ENC_MEDIA_FMT_NONE"

\* enum A2DP_STATE; STARTED and STOPPED are declared but never assigned
A2DP_STATE_CONNECTED == "A2DP_STATE_CONNECTED"
A2DP_STATE_DISCONNECTED == "A2DP_STATE_DISCONNECTED"

(* --------------------------- environment ------------------------------ *)
\* the function-pointer members of struct a2dp_data, by dlsym name
IpcOps ==
    { "audio_stream_open", "audio_stream_close", "audio_stream_start",
      "audio_stream_stop", "audio_stream_suspend", "audio_handoff_triggered",
      "clear_a2dp_suspend_flag", "audio_get_codec_config",
      "audio_check_a2dp_ready", "audio_is_scrambling_enabled" }

\* libbthost_if.so exports everything, or lacks one of the symbols
LibVariants == {IpcOps} \cup { IpcOps \ {o} : o \in IpcOps \ {"audio_handoff_triggered"} }

MixerCtlNames ==
    { MIXER_ENC_CONFIG_BLOCK, MIXER_ENC_BIT_FORMAT, MIXER_SCRAMBLER_MODE,
      MIXER_SAMPLE_RATE, MIXER_AFE_IN_CHANNELS }

\* the hardware profile has every control, or lacks one of them
MixerProfiles == {MixerCtlNames} \cup { MixerCtlNames \ {c} : c \in MixerCtlNames }

\* status returned by audio_stream_open/start/stop/suspend
IpcStatus == {0, -1}

VARIABLES
    lib_exports,    \* symbols libbthost_if.so exports (fixed)
    mixer_ctls,     \* controls mixer_get_ctl_by_name finds (fixed)
    flaky,          \* the driver is one that rejects mixer writes (fixed)
    a2dp,           \* struct a2dp_data a2dp
    mixer,          \* value last written to each mixer control
    rejected,       \* mixer writes the driver has rejected so far
    op,             \* entry point that ran last
    ret,            \* its return value
    calls,          \* external calls it made, in order
    pc,             \* where the A2dpSuspended handler that stepped last stands
    uc_left,        \* use-cases its list_for_each still has to visit
    hcalls,         \* external calls of the handler's latest step, if it ran last
    waiting,        \* the other handlers in flight, each in a window of its walk
    stepped,        \* where the handler that stepped last stood before the step
    crashed         \* the process was killed in the last call of the trace

vars ==
    <<lib_exports, mixer_ctls, flaky, a2dp, mixer, rejected, op, ret, calls, pc, uc_left, hcalls,
      waiting, stepped, crashed>>

(* ----------------------------- helpers -------------------------------- *)
\* one external call in a trace
Ev(fn, arg, ok) == [fn |-> fn, arg |-> arg, ok |-> ok, val |-> <<>>]

\* one external call that handed back a value
Got(fn, arg, val) == [fn |-> fn, arg |-> arg, ok |-> TRUE, val |-> val]

Called(w, fn) == [w EXCEPT !.log = Append(@, Ev(fn, "", TRUE))]

\* F applied to every world of W in which the process is still running
Bind(W, F(_)) == UNION { IF w.crashed THEN {w} ELSE F(w) : w \in W }

Fns(log) == { log[i].fn : i \in DOMAIN log }

CountFn(log, fn) == Cardinality({ i \in DOMAIN log : log[i].fn = fn })

Bound(a, fn) == fn \in a.fnptrs

\* the pointers dlsym stored outlive the dlclose of a failed open: the
\* handle is NULL again and the pointers lead into a library that is gone
Stale(a) == ~a.bt_lib_handle /\ a.fnptrs # {}

\* the process dies in the call of fn (SIGSEGV)
Crash(w, fn) ==
    [w EXCEPT !.log = Append(@, Ev(fn, "SIGSEGV", FALSE)), !.crashed = TRUE]

\* a call through the pointer fn that may end in the worlds W: through a
\* stale pointer the behaviour is undefined, the call may kill the process
\* or, when the code is still mapped, run as usual
ThroughPointer(w, fn, W) ==
    IF Stale(w.a) THEN {Crash(w, fn)} \cup W ELSE W

IsCodec(f) ==
    f \in { ENC_CODEC_TYPE_AAC, ENC_CODEC_TYPE_SBC, ENC_CODEC_TYPE_APTX,
            ENC_CODEC_TYPE_APTX_HD, ENC_CODEC_TYPE_LDAC }

mixer_get_ctl_by_name(name) == name \in mixer_ctls

\* The environment departs from the nominal one in one respect at a time:
\* the library lacks a symbol, or the profile lacks a control, or the driver
\* rejects up to MaxRejectedWrites writes.
NominalEnv == lib_exports = IpcOps /\ mixer_ctls = MixerCtlNames

MayReject(w) == flaky /\ w.rejected < MaxRejectedWrites

\* mixer_ctl_set_array / mixer_ctl_set_value / mixer_ctl_set_enum_by_string:
\* the write lands and returns 0, or is rejected and returns an error
mixer_ctl_set(w, ctl, val) ==
    { [w EXCEPT !.m[ctl] = val, !.log = Append(@, Ev("mixer_ctl_set", ctl, TRUE)), !.ret = 0] }
    \cup
    ( IF MayReject(w)
      THEN { [w EXCEPT !.log = Append(@, Ev("mixer_ctl_set", ctl, FALSE)), !.ret = -EINVAL,
                       !.rejected = @ + 1] }
      ELSE {} )

\* struct sbc_enc_cfg_t after memset(0): the inert "no format" record
dummy_reset_config ==
    [ enc_format |-> 0, num_subbands |-> 0, blk_len |-> 0, channel_mode |-> 0,
      alloc_method |-> 0, bit_rate |-> 0, sample_rate |-> 0 ]

(* --------------------------- a2dp.c: lifecycle ------------------------ *)
a2dp_common_init_nosusp(a) ==
    [a EXCEPT !.a2dp_started = FALSE,
              !.a2dp_total_active_session_request = 0,
              !.bt_encoder_format = ENC_CODEC_TYPE_INVALID,
              !.bt_state = A2DP_STATE_DISCONNECTED]

a2dp_common_init(a) ==
    [a EXCEPT !.a2dp_started = FALSE,
              !.a2dp_total_active_session_request = 0,
              !.a2dp_suspended = FALSE,
              !.bt_encoder_format = ENC_CODEC_TYPE_INVALID,
              !.bt_state = A2DP_STATE_DISCONNECTED]

\* the state check at the head of open_a2dp_output
open_improper_state_any(a) == FALSE

open_improper_state(a) == a.bt_state # A2DP_STATE_DISCONNECTED

\* errno as a failed dlopen can leave it: the loader reports through dlerror
\* and need not set errno at all
DlopenErrno == {0, ENOENT, ENOMEM, EACCES}

\* dlopen + the ten dlsym calls of open_a2dp_output
open_load_lib(w) ==
    IF ~w.a.bt_lib_handle
    THEN { [w EXCEPT !.log = Append(@, Ev("dlopen", "", FALSE)),
                     !.a.bt_state = A2DP_STATE_DISCONNECTED,
                     !.ret = -errno, !.done = TRUE] : errno \in DlopenErrno }
         \cup
         { [w EXCEPT !.log = Append(Append(@, Ev("dlopen", "", TRUE)), Ev("dlsym", "", TRUE)),
                     !.a.bt_lib_handle = TRUE,
                     !.a.fnptrs = lib_exports] }
    ELSE {w}

open_failure_keep_handle(a) == [a EXCEPT !.bt_state = A2DP_STATE_DISCONNECTED]

\* the struct after audio_stream_open failed: dlclose, handle set to NULL
open_failure(a) ==
    [a EXCEPT !.bt_lib_handle = FALSE, !.bt_state = A2DP_STATE_DISCONNECTED]

\* the audio_stream_open call of open_a2dp_output and its outcome
open_stream(w) ==
    IF w.done THEN {w}
    ELSE IF w.a.bt_lib_handle /\ Bound(w.a, "audio_stream_open")
    THEN { IF r # 0
           THEN [w EXCEPT !.log = Append(Append(@, Ev("audio_stream_open", "", FALSE)),
                                         Ev("dlclose", "", TRUE)),
                          !.a = open_failure(@),
                          !.ret = r]
           ELSE [w EXCEPT !.log = Append(@, Ev("audio_stream_open", "", TRUE)),
                          !.a.bt_state = A2DP_STATE_CONNECTED,
                          !.ret = r]
           : r \in IpcStatus }
    ELSE { [w EXCEPT !.a.bt_state = A2DP_STATE_DISCONNECTED, !.ret = -ENOSYS] }

open_a2dp_output(w) ==
    IF open_improper_state(w.a)
    THEN { [w EXCEPT !.ret = -ENOSYS] }
    ELSE Bind(open_load_lib([w EXCEPT !.ret = 0]), open_stream)

\* the two field resets that follow a2dp_common_init in close_a2dp_output
close_reset_rate(a) == [a EXCEPT !.enc_sampling_rate = 0, !.enc_channels = 0]

close_needed_always(a) == TRUE

\* the condition under which close_a2dp_output calls audio_stream_close
close_needed(a) == a.bt_state # A2DP_STATE_DISCONNECTED

close_a2dp_output(w) ==
    IF ~(w.a.bt_lib_handle /\ Bound(w.a, "audio_stream_close"))
    THEN { [w EXCEPT !.ret = -ENOSYS] }
    ELSE LET closed == IF close_needed(w.a)
                       THEN { [w EXCEPT !.log = Append(@, Ev("audio_stream_close", "", b))]
                              : b \in BOOLEAN }
                       ELSE {w}
         IN  { [c EXCEPT !.a = close_reset_rate(a2dp_common_init(c.a)), !.ret = 0]
               : c \in closed }

(* ------------------------ a2dp.c: mixer writes ------------------------ *)
bit_format_str(enc_bit_format) ==
    CASE enc_bit_format = 32 -> "S32_LE"
      [] enc_bit_format = 24 -> "S24_LE"
      [] OTHER -> "S16_LE"

a2dp_set_bit_format(w, enc_bit_format) ==
    IF ~mixer_get_ctl_by_name(MIXER_ENC_BIT_FORMAT)
    THEN { [w EXCEPT !.ret = -ENOSYS] }
    ELSE { [x EXCEPT !.ret = IF x.ret # 0 THEN -ENOSYS ELSE 0]
           : x \in mixer_ctl_set(w, MIXER_ENC_BIT_FORMAT, bit_format_str(enc_bit_format)) }

reset_a2dp_enc_config_params_on_success(w) ==
    LET W1 == IF ~mixer_get_ctl_by_name(MIXER_ENC_CONFIG_BLOCK)
              THEN {w}
              ELSE { IF x.ret = 0
                     THEN [x EXCEPT !.a.bt_encoder_format = ENC_MEDIA_FMT_NONE]
                     ELSE x
                     : x \in mixer_ctl_set(w, MIXER_ENC_CONFIG_BLOCK, dummy_reset_config) }
    IN  Bind(W1, LAMBDA x : a2dp_set_bit_format(x, DEFAULT_ENCODER_BIT_FORMAT))

reset_a2dp_enc_config_params(w) ==
    LET W1 == IF ~mixer_get_ctl_by_name(MIXER_ENC_CONFIG_BLOCK)
              THEN {w}
              ELSE { [x EXCEPT !.a.bt_encoder_format = ENC_MEDIA_FMT_NONE]
                     : x \in mixer_ctl_set(w, MIXER_ENC_CONFIG_BLOCK, dummy_reset_config) }
    IN  Bind(W1, LAMBDA x : a2dp_set_bit_format(x, DEFAULT_ENCODER_BIT_FORMAT))

backend_rate_str_no_doubling(fmt, enc_sampling_rate) ==
    CASE enc_sampling_rate = 44100 -> "KHZ_44P1"
      [] enc_sampling_rate = 48000 -> "KHZ_48"
      [] enc_sampling_rate = 88200 -> "KHZ_88P2"
      [] enc_sampling_rate = 96000 -> "KHZ_96"
      [] OTHER -> "KHZ_48"

\* the backend rate a2dp_set_backend_cfg selects; the doubling is applied to
\* 44100 and 48000 only and cannot leave the range of uint32_t
backend_rate_str(fmt, enc_sampling_rate) ==
    LET sampling_rate ==
            IF fmt = ENC_CODEC_TYPE_LDAC /\ (enc_sampling_rate = 48000 \/ enc_sampling_rate = 44100)
            THEN enc_sampling_rate * 2
            ELSE enc_sampling_rate
    IN  CASE sampling_rate = 44100 -> "KHZ_44P1"
          [] sampling_rate = 48000 -> "KHZ_48"
          [] sampling_rate = 88200 -> "KHZ_88P2"
          [] sampling_rate = 96000 -> "KHZ_96"
          [] OTHER -> "KHZ_48"

\* the AFE input channel setting a2dp_set_backend_cfg selects
in_channels_str(enc_channels) == IF enc_channels = 1 THEN "One" ELSE "Two"

\* two enum writes, the function returns at the first that fails
backend_writes(w, rate_str, in_channels) ==
    IF ~mixer_get_ctl_by_name(MIXER_SAMPLE_RATE)
    THEN {w}
    ELSE Bind(mixer_ctl_set(w, MIXER_SAMPLE_RATE, rate_str),
              LAMBDA x : IF x.ret # 0 THEN {x}
                         ELSE IF ~mixer_get_ctl_by_name(MIXER_AFE_IN_CHANNELS) THEN {x}
                         ELSE mixer_ctl_set(x, MIXER_AFE_IN_CHANNELS, in_channels))

a2dp_set_backend_cfg(w) ==
    backend_writes(w, backend_rate_str(w.a.bt_encoder_format, w.a.enc_sampling_rate),
                   in_channels_str(w.a.enc_channels))

a2dp_reset_backend_cfg(w) == backend_writes(w, "KHZ_8", "Zero")

a2dp_check_and_set_scrambler(w) ==
    IF Bound(w.a, "audio_is_scrambling_enabled") /\ w.a.bt_state # A2DP_STATE_DISCONNECTED
    THEN LET off == [w EXCEPT !.log = Append(@, Ev("audio_is_scrambling_enabled", "", FALSE)),
                              !.ret = 0]
             on  == [w EXCEPT !.log = Append(@, Ev("audio_is_scrambling_enabled", "", TRUE))]
         IN  {off} \cup (IF ~mixer_get_ctl_by_name(MIXER_SCRAMBLER_MODE)
                         THEN { [on EXCEPT !.ret = -ENOSYS] }
                         ELSE mixer_ctl_set(on, MIXER_SCRAMBLER_MODE, 1))
    ELSE { [w EXCEPT !.ret = 0] }

(* ---------------------- a2dp.c: encoder records ----------------------- *)
sbc_channel_mode(channels) ==
    CASE channels = 0 -> MEDIA_FMT_SBC_CHANNEL_MODE_MONO
      [] channels = 1 -> MEDIA_FMT_SBC_CHANNEL_MODE_DUAL_MONO
      [] channels = 3 -> MEDIA_FMT_SBC_CHANNEL_MODE_JOINT_STEREO
      [] OTHER -> MEDIA_FMT_SBC_CHANNEL_MODE_STEREO

sbc_alloc_method_inverted(alloc) ==
    IF alloc # 0 THEN MEDIA_FMT_SBC_ALLOCATION_METHOD_SNR
    ELSE MEDIA_FMT_SBC_ALLOCATION_METHOD_LOUDNESS

sbc_alloc_method(alloc) ==
    IF alloc # 0 THEN MEDIA_FMT_SBC_ALLOCATION_METHOD_LOUDNESS
    ELSE MEDIA_FMT_SBC_ALLOCATION_METHOD_SNR

sbc_dsp_cfg(sbc_bt_cfg) ==
    [ enc_format |-> ENC_MEDIA_FMT_SBC,
      num_subbands |-> sbc_bt_cfg.subband,
      blk_len |-> sbc_bt_cfg.blk_len,
      channel_mode |-> sbc_channel_mode(sbc_bt_cfg.channels),
      alloc_method |-> sbc_alloc_method(sbc_bt_cfg.alloc),
      bit_rate |-> sbc_bt_cfg.bitrate,
      sample_rate |-> sbc_bt_cfg.sampling_rate ]

\* channel_mapping[8] of custom_enc_cfg_t after memset(0) and the switch
custom_channel_mapping(num_channels) ==
    IF num_channels = 1
    THEN <<PCM_CHANNEL_C, 0, 0, 0, 0, 0, 0, 0>>
    ELSE <<PCM_CHANNEL_L, PCM_CHANNEL_R, 0, 0, 0, 0, 0, 0>>

\* default_cfg and dual_mono_cfg are the same pointer: sync_mode reads the
\* word that holds bits_per_sample
aptx_dsp_cfg(dual_mono, cfg) ==
    [ custom_cfg |-> [ enc_format |-> ENC_MEDIA_FMT_APTX,
                       sample_rate |-> cfg.sampling_rate,
                       num_channels |-> cfg.channels,
                       reserved |-> 0,
                       channel_mapping |-> custom_channel_mapping(cfg.channels),
                       custom_size |-> 0 ],
      aptx_v2_cfg |-> [ sync_mode |-> IF dual_mono THEN cfg.bits_per_sample ELSE 0 ] ]

aptx_hd_dsp_cfg(cfg) ==
    [ enc_format |-> ENC_MEDIA_FMT_APTX_HD,
      sample_rate |-> cfg.sampling_rate,
      num_channels |-> cfg.channels,
      reserved |-> 0,
      channel_mapping |-> custom_channel_mapping(cfg.channels),
      custom_size |-> 0 ]

aac_enc_mode(enc_mode) ==
    CASE enc_mode = 0 -> MEDIA_FMT_AAC_AOT_LC
      [] enc_mode = 2 -> MEDIA_FMT_AAC_AOT_PS
      [] OTHER -> MEDIA_FMT_AAC_AOT_SBR

aac_dsp_cfg(cfg) ==
    [ enc_format |-> ENC_MEDIA_FMT_AAC,
      bit_rate |-> cfg.bitrate,
      enc_mode |-> aac_enc_mode(cfg.enc_mode),
      aac_fmt_flag |-> cfg.format_flag,
      channel_cfg |-> cfg.channels,
      sample_rate |-> cfg.sampling_rate ]

ldac_num_channels(channel_mode) == IF channel_mode = 4 THEN 1 ELSE 2

\* sizeof(struct ldac_enc_cfg_t), packed: 24 bytes of custom_enc_cfg_t + 8
ldac_dsp_cfg(cfg) ==
    [ custom_cfg |-> [ enc_format |-> ENC_MEDIA_FMT_LDAC,
                       sample_rate |-> cfg.sampling_rate,
                       num_channels |-> ldac_num_channels(cfg.channel_mode),
                       reserved |-> 0,
                       channel_mapping |->
                           custom_channel_mapping(ldac_num_channels(cfg.channel_mode)),
                       custom_size |-> 24 + 8 ],
      ldac_cfg |-> [ bit_rate |-> cfg.bit_rate,
                     channel_mode |-> cfg.channel_mode,
                     mtu |-> cfg.mtu ] ]

\* the body the five configure_*_enc_format functions share: NULL check,
\* control lookup, block write, bit-format write, then the session fields
configure_enc_format(w, is_null, dsp_cfg, bits_per_sample, fmt, rate, channels) ==
    IF is_null THEN { [w EXCEPT !.ok = FALSE] }
    ELSE IF ~mixer_get_ctl_by_name(MIXER_ENC_CONFIG_BLOCK) THEN { [w EXCEPT !.ok = FALSE] }
    ELSE Bind(mixer_ctl_set(w, MIXER_ENC_CONFIG_BLOCK, dsp_cfg),
              LAMBDA x :
                IF x.ret # 0 THEN { [x EXCEPT !.ok = FALSE] }
                ELSE { IF y.ret # 0
                       THEN [y EXCEPT !.ok = FALSE]
                       ELSE [y EXCEPT !.ok = TRUE,
                                      !.a.bt_encoder_format = fmt,
                                      !.a.enc_sampling_rate = rate,
                                      !.a.enc_channels = channels]
                       : y \in a2dp_set_bit_format(x, bits_per_sample) })

configure_sbc_enc_format(w, c) ==
    configure_enc_format(w, c.is_null, sbc_dsp_cfg(c.info), c.info.bits_per_sample,
        ENC_CODEC_TYPE_SBC, c.info.sampling_rate,
        IF sbc_channel_mode(c.info.channels) = MEDIA_FMT_SBC_CHANNEL_MODE_MONO THEN 1 ELSE 2)

\* configure_aptx_enc_format on the address of the caller's local struct,
\* whose default_cfg is the block of c: the NULL check of the argument never
\* fires, and a NULL block is read through right after the control lookup
configure_aptx_enc_format(w, c) ==
    IF c.is_null
    THEN IF ~mixer_get_ctl_by_name(MIXER_ENC_CONFIG_BLOCK)
         THEN { [w EXCEPT !.ok = FALSE] }
         ELSE { Crash(w, "configure_aptx_enc_format") }
    ELSE configure_enc_format(w, FALSE,
             aptx_dsp_cfg(w.a.is_aptx_dual_mono_supported, c.info), c.info.bits_per_sample,
             ENC_CODEC_TYPE_APTX, c.info.sampling_rate, c.info.channels)

configure_aptx_hd_enc_format(w, c) ==
    configure_enc_format(w, c.is_null, aptx_hd_dsp_cfg(c.info), c.info.bits_per_sample,
        ENC_CODEC_TYPE_APTX_HD, c.info.sampling_rate, c.info.channels)

configure_aac_enc_format(w, c) ==
    configure_enc_format(w, c.is_null, aac_dsp_cfg(c.info), c.info.bits_per_sample,
        ENC_CODEC_TYPE_AAC, c.info.sampling_rate, c.info.channels)

configure_ldac_enc_format(w, c) ==
    configure_enc_format(w, c.is_null, ldac_dsp_cfg(c.info), c.info.bits_per_sample,
        ENC_CODEC_TYPE_LDAC, c.info.sampling_rate, ldac_num_channels(c.info.channel_mode))

\* what audio_get_codec_config may hand back: the codec type and the
\* parameter block it points to (is_null: a NULL pointer)
CodecConfigs ==
    { [ codec_type |-> ENC_CODEC_TYPE_SBC, is_null |-> FALSE,
        info |-> [ subband |-> 4, blk_len |-> 8, sampling_rate |-> 48000, channels |-> 0,
                   alloc |-> 1, min_bitpool |-> 2, max_bitpool |-> 51,
                   bitrate |-> 320000, bits_per_sample |-> 16 ] ],
      [ codec_type |-> ENC_CODEC_TYPE_SBC, is_null |-> TRUE, info |-> [ null |-> TRUE ] ],
      [ codec_type |-> ENC_CODEC_TYPE_APTX, is_null |-> FALSE,
        info |-> [ sampling_rate |-> 48000, channels |-> 2, bitrate |-> 352000,
                   bits_per_sample |-> 16 ] ],
      [ codec_type |-> ENC_CODEC_TYPE_APTX_HD, is_null |-> FALSE,
        info |-> [ sampling_rate |-> 48000, channels |-> 2, bitrate |-> 576000,
                   bits_per_sample |-> 24 ] ],
      [ codec_type |-> ENC_CODEC_TYPE_AAC, is_null |-> FALSE,
        info |-> [ enc_mode |-> 0, format_flag |-> 0, channels |-> 2, sampling_rate |-> 44100,
                   bitrate |-> 256000, bits_per_sample |-> 16 ] ],
      [ codec_type |-> ENC_CODEC_TYPE_LDAC, is_null |-> FALSE,
        info |-> [ sampling_rate |-> 44100, bit_rate |-> 909000, channel_mode |-> 1,
                   mtu |-> 679, bits_per_sample |-> 32 ] ],
      [ codec_type |-> ENC_CODEC_TYPE_INVALID, is_null |-> TRUE, info |-> [ null |-> TRUE ] ] }

\* what it hands back in the runs that follow the session through connect,
\* start, stop and suspend: a codec whose backend rate is the encoder rate,
\* one whose backend rate differs, a NULL block and an unsupported type
SessionConfigs ==
    { c \in CodecConfigs :
        c.codec_type \in { ENC_CODEC_TYPE_SBC, ENC_CODEC_TYPE_LDAC, ENC_CODEC_TYPE_INVALID } }

\* the sampling rates the Bluetooth stack negotiates in the runs that vary
\* the codec parameters: the four the backend knows and one it does not
NegotiatedRates == {16000, 44100, 48000, 88200, 96000}

\* codec parameter blocks that cover, one field at a time, the range of
\* the fields the encoder records and the backend settings are computed from
NegotiatedConfigs ==
    { [ codec_type |-> ENC_CODEC_TYPE_APTX, is_null |-> TRUE, info |-> [ null |-> TRUE ] ] }
    \cup
    { [ codec_type |-> ENC_CODEC_TYPE_SBC, is_null |-> FALSE,
        info |-> [ subband |-> 8, blk_len |-> 16, sampling_rate |-> 44100, channels |-> ch,
                   alloc |-> al, min_bitpool |-> 2, max_bitpool |-> 53,
                   bitrate |-> 328000, bits_per_sample |-> 16 ] ]
      : ch \in 0..MaxSbcChannelIndex, al \in 0..MaxSbcAlloc }
    \cup
    { [ codec_type |-> ENC_CODEC_TYPE_SBC, is_null |-> FALSE,
        info |-> [ subband |-> 4, blk_len |-> 8, sampling_rate |-> 48000, channels |-> 2,
                   alloc |-> 0, min_bitpool |-> 2, max_bitpool |-> 51,
                   bitrate |-> 320000, bits_per_sample |-> 16 ] ] }
    \cup
    { [ codec_type |-> ENC_CODEC_TYPE_LDAC, is_null |-> FALSE,
        info |-> [ sampling_rate |-> 48000, bit_rate |-> 606000, channel_mode |-> cm,
                   mtu |-> 679, bits_per_sample |-> 16 ] ]
      : cm \in 0..MaxLdacChannelMode }
    \cup
    { [ codec_type |-> ENC_CODEC_TYPE_LDAC, is_null |-> FALSE,
        info |-> [ sampling_rate |-> r, bit_rate |-> 606000, channel_mode |-> 1,
                   mtu |-> 679, bits_per_sample |-> 16 ] ]
      : r \in NegotiatedRates }
    \cup
    { [ codec_type |-> ENC_CODEC_TYPE_APTX, is_null |-> FALSE,
        info |-> [ sampling_rate |-> 48000, channels |-> ch, bitrate |-> 352000,
                   bits_per_sample |-> 16 ] ]
      : ch \in 1..2 }
    \cup
    { [ codec_type |-> ENC_CODEC_TYPE_APTX_HD, is_null |-> FALSE,
        info |-> [ sampling_rate |-> 48000, channels |-> 2, bitrate |-> 576000,
                   bits_per_sample |-> 24 ] ] }
    \cup
    { [ codec_type |-> ENC_CODEC_TYPE_AAC, is_null |-> FALSE,
        info |-> [ enc_mode |-> 0, format_flag |-> 0, channels |-> 2, sampling_rate |-> r,
                   bitrate |-> 256000, bits_per_sample |-> 16 ] ]
      : r \in NegotiatedRates }

configure_a2dp_encoder_format(w) ==
    IF ~Bound(w.a, "audio_get_codec_config")
    THEN { [w EXCEPT !.ok = FALSE] }
    ELSE ThroughPointer(w, "audio_get_codec_config", UNION {
           LET g == [w EXCEPT !.log = Append(@, Got("audio_get_codec_config", c.codec_type, c))]
           IN  CASE c.codec_type = ENC_CODEC_TYPE_SBC -> configure_sbc_enc_format(g, c)
                 [] c.codec_type = ENC_CODEC_TYPE_APTX ->
                      configure_aptx_enc_format(
                          [g EXCEPT !.a.is_aptx_dual_mono_supported = FALSE], c)
                 [] c.codec_type = ENC_CODEC_TYPE_APTX_HD -> configure_aptx_hd_enc_format(g, c)
                 [] c.codec_type = ENC_CODEC_TYPE_AAC -> configure_aac_enc_format(g, c)
                 [] c.codec_type = ENC_CODEC_TYPE_LDAC -> configure_ldac_enc_format(g, c)
                 [] OTHER -> { [g EXCEPT !.ok = FALSE] }
           : c \in w.codec_configs })

(* ------------------------ a2dp.c: start and stop ---------------------- *)
\* first guard of audio_extn_a2dp_start_playback
start_unavailable(a) ==
    ~(a.bt_lib_handle /\ Bound(a, "audio_stream_start") /\ Bound(a, "audio_get_codec_config"))

start_suspended_ignored(a) == FALSE

\* second guard of audio_extn_a2dp_start_playback
start_suspended(a) == a.a2dp_suspended

start_first_session_always(a) == TRUE

\* the condition of the IPC start block of audio_extn_a2dp_start_playback
start_first_session(a) == ~a.a2dp_started /\ a.a2dp_total_active_session_request = 0

start_ipc_failed_never(r) == FALSE

\* the test of the status audio_stream_start returned
start_ipc_failed(r) == r # 0

\* the IPC start block: only when nothing is started and nothing is requested
start_stream(w) ==
    IF start_first_session(w.a)
    THEN UNION {
           IF start_ipc_failed(r)
           THEN { [w EXCEPT !.log = Append(@, Ev("audio_stream_start", "", FALSE)),
                            !.a.a2dp_started = FALSE,
                            !.ret = r] }
           ELSE { IF x.crashed THEN x
                  ELSE IF x.ok
                  THEN [x EXCEPT !.a.a2dp_started = TRUE, !.ret = 0]
                  ELSE [x EXCEPT !.a.a2dp_started = FALSE, !.ret = -ETIMEDOUT]
                  : x \in configure_a2dp_encoder_format(
                              [w EXCEPT !.log = Append(@, Ev("audio_stream_start", "", r = 0))]) }
           : r \in IpcStatus }
    ELSE {w}

start_result_of_backend(ret_before, cfg_ret) == IF cfg_ret # 0 THEN cfg_ret ELSE ret_before

\* ret after the scrambler and backend calls: their results are not assigned
start_result(ret_before, cfg_ret) == ret_before

start_account_always(w) ==
    { [y EXCEPT !.ret = w.ret]
      : y \in Bind(a2dp_check_and_set_scrambler(
                       [w EXCEPT !.a.a2dp_total_active_session_request = @ + 1]),
                   a2dp_set_backend_cfg) }

\* the session count and the scrambler/backend writes of a started path
start_account(w) ==
    IF w.a.a2dp_started
    THEN { [y EXCEPT !.ret = start_result(w.ret, y.ret)]
           : y \in Bind(a2dp_check_and_set_scrambler(
                            [w EXCEPT !.a.a2dp_total_active_session_request = @ + 1]),
                        a2dp_set_backend_cfg) }
    ELSE {w}

audio_extn_a2dp_start_playback(w) ==
    IF start_unavailable(w.a) THEN { [w EXCEPT !.ret = -ENOSYS] }
    ELSE IF start_suspended(w.a) THEN { [w EXCEPT !.ret = -ENOSYS] }
    ELSE Bind(start_stream([w EXCEPT !.ret = 0]), start_account)

\* first guard of audio_extn_a2dp_stop_playback
stop_unavailable(a) == ~(a.bt_lib_handle /\ Bound(a, "audio_stream_stop"))

stop_decrement_unguarded(n) == n - 1

\* the guarded decrement of a2dp_total_active_session_request
stop_decrement(n) == IF n > 0 THEN n - 1 ELSE n

stop_last_session_started_only(a) == a.a2dp_started

\* the condition under which stop_playback tears the stream down
stop_last_session(a) == a.a2dp_started /\ a.a2dp_total_active_session_request = 0

stop_result_of_ipc(ipc_ret) == ipc_ret

\* the value audio_extn_a2dp_stop_playback returns after the guard
stop_result(ipc_ret) == 0

stop_keep_started(a) == a

\* the last statement of the teardown block of stop_playback
stop_clear_started(a) == [a EXCEPT !.a2dp_started = FALSE]

stop_stream(w) ==
    IF stop_last_session(w.a)
    THEN UNION {
           { [y EXCEPT !.a = stop_clear_started(@), !.ret = r]
             : y \in Bind(reset_a2dp_enc_config_params(
                              [w EXCEPT !.log = Append(@, Ev("audio_stream_stop", "", r = 0))]),
                          a2dp_reset_backend_cfg) }
           : r \in IpcStatus }
    ELSE {w}

audio_extn_a2dp_stop_playback(w) ==
    IF stop_unavailable(w.a) THEN { [w EXCEPT !.ret = -ENOSYS] }
    ELSE { [x EXCEPT !.ret = stop_result(x.ret)]
           : x \in stop_stream(
                 [w EXCEPT !.ret = 0,
                           !.a.a2dp_total_active_session_request = stop_decrement(@)]) }

(* --------------------- a2dp.c: A2dpSuspended handler ------------------- *)
restore_without_unlock(log, restoring) ==
    Append(log, Ev("check_a2dp_restore", IF restoring THEN "true" ELSE "false", TRUE))

\* pthread_mutex_unlock(&adev->lock); check_a2dp_restore(adev, out, restore)
unlock_and_restore(log, restoring) ==
    Append(Append(log, Ev("pthread_mutex_unlock", "", TRUE)),
           Ev("check_a2dp_restore", IF restoring THEN "true" ELSE "false", TRUE))

suspend_finish_no_reset(w) ==
    IF Bound(w.a, "audio_stream_suspend")
    THEN ThroughPointer(w, "audio_stream_suspend",
             { [w EXCEPT !.log = Append(@, Ev("audio_stream_suspend", "", r = 0))]
               : r \in IpcStatus })
    ELSE {w}

\* what follows the list_for_each of the suspend branch
suspend_finish(w) ==
    Bind(reset_a2dp_enc_config_params(w),
         LAMBDA x : IF Bound(x.a, "audio_stream_suspend")
                    THEN ThroughPointer(x, "audio_stream_suspend",
                             { [x EXCEPT !.log = Append(@, Ev("audio_stream_suspend", "",
                                                               r = 0))]
                               : r \in IpcStatus })
                    ELSE {x})

resume_restart_cond_always(a) == Bound(a, "audio_stream_start")

\* the conditions under which the resume branch calls audio_stream_start
resume_restart_cond(a) ==
    a.a2dp_total_active_session_request > 0 /\ Bound(a, "audio_stream_start")

\* the resume branch up to its list_for_each
resume_begin(w) ==
    LET c == IF Bound(w.a, "clear_a2dp_suspend_flag")
             THEN Called(w, "clear_a2dp_suspend_flag") ELSE w
        u == [c EXCEPT !.a.a2dp_suspended = FALSE]
    IN  IF resume_restart_cond(u.a)
        THEN { IF r # 0
               THEN [u EXCEPT !.log = Append(@, Ev("audio_stream_start", "", FALSE)),
                              !.a.a2dp_started = FALSE]
               ELSE [u EXCEPT !.log = Append(@, Ev("audio_stream_start", "", TRUE))]
               : r \in IpcStatus }
        ELSE {u}

\* the outer condition of the A2dpSuspended branch
suspend_session_open(a) == a.bt_lib_handle /\ a.bt_state # A2DP_STATE_DISCONNECTED

\* condition of the first branch: enter suspend
suspend_enter_cond(value, a) == value = "true" /\ ~a.a2dp_suspended

suspend_leave_cond_any(value, a) == TRUE

\* condition of the else-if branch: leave suspend (the value is not looked at)
suspend_leave_cond(value, a) == a.a2dp_suspended

(* ------------------------------ actions ------------------------------- *)
World(log) ==
    [a |-> a2dp, m |-> mixer, rejected |-> rejected, log |-> log, ret |-> 0,
     done |-> FALSE, ok |-> FALSE, crashed |-> FALSE, codec_configs |-> SessionConfigs]

\* the position of a handler: the branch it walks and the use-cases left
Pos(p, n) == [pc |-> p, uc_left |-> n]

\* every handler that stands in a window of its walk
InFlight ==
    IF pc = "idle" THEN waiting ELSE waiting (+) SetToBag({Pos(pc, uc_left)})

\* some handler stands in a window of the branch p
InWindow(p) == \E h \in BagToSet(InFlight) : h.pc = p

\* no A2dpSuspended handler is under way
NoHandler == BagCardinality(InFlight) = 0

\* an entry point that runs with adev->lock held from entry to return; the
\* trace of the handler step that ran before it is dropped
Returns(name, W) ==
    \E w \in W :
        /\ ~crashed
        /\ crashed' = w.crashed
        /\ stepped' = Pos("idle", 0)
        /\ UNCHANGED waiting
        /\ a2dp' = w.a
        /\ mixer' = w.m
        /\ rejected' = w.rejected
        /\ op' = name
        /\ ret' = w.ret
        /\ calls' = w.log
        /\ hcalls' = <<>>
        /\ UNCHANGED <<lib_exports, mixer_ctls, flaky, pc, uc_left>>

\* a step of the A2dpSuspended handler that stood at from (idle: it is
\* called now) and ends at next_pc; the trace of the entry point that ran
\* before it is dropped
HandlerStep(name, W, from, next_pc, n) ==
    \E w \in W :
        /\ ~crashed
        /\ crashed' = w.crashed
        /\ stepped' = from
        /\ waiting' = IF from.pc = "idle" THEN InFlight ELSE InFlight (-) SetToBag({from})
        /\ a2dp' = w.a
        /\ mixer' = w.m
        /\ rejected' = w.rejected
        /\ op' = name
        /\ hcalls' = w.log
        /\ pc' = next_pc
        /\ uc_left' = n
        /\ ret' = 0
        /\ calls' = <<>>
        /\ UNCHANGED <<lib_exports, mixer_ctls, flaky>>

set_parameters_ignored_never(a) == FALSE

\* the first check of audio_extn_a2dp_set_parameters
set_parameters_ignored(a) == a.is_a2dp_offload_supported = FALSE

\* set_parameters(AUDIO_PARAMETER_DEVICE_CONNECT = an A2DP device)
Connect ==
    IF set_parameters_ignored(a2dp)
    THEN Returns("connect", {World(<<>>)})
    ELSE Returns("connect", open_a2dp_output(World(<<>>)))

\* set_parameters(AUDIO_PARAMETER_DEVICE_DISCONNECT = an A2DP device)
Disconnect ==
    IF set_parameters_ignored(a2dp)
    THEN Returns("disconnect", {World(<<>>)})
    ELSE Returns("disconnect",
                 Bind(reset_a2dp_enc_config_params(World(<<>>)), close_a2dp_output))

StartPlayback ==
    /\ a2dp.a2dp_total_active_session_request < MaxSessions
    /\ Returns("start", audio_extn_a2dp_start_playback(World(<<>>)))

StopPlayback ==
    /\ pc \in {"idle", "suspend_dm", "resume_dm"}
    /\ Returns("stop", audio_extn_a2dp_stop_playback(World(<<>>)))

SetHandoffMode ==
    /\ pc \in {"idle", "suspend_dm", "resume_dm"}
    /\ \E is_on \in BOOLEAN :
        Returns("set_handoff_mode", { [World(<<>>) EXCEPT !.a.is_handoff_in_progress = is_on] })

\* audio_extn_a2dp_is_force_device_switch, on the struct
audio_extn_a2dp_is_force_device_switch(a) == a.is_handoff_in_progress \/ ~a.a2dp_started

ready_suspended_ignored(a) == FALSE

\* the first check of audio_extn_a2dp_is_ready
ready_suspended(a) == a.a2dp_suspended

\* audio_extn_a2dp_is_ready; the bool it returns is 0 or 1
audio_extn_a2dp_is_ready(w) ==
    IF ready_suspended(w.a) THEN { [w EXCEPT !.ret = 0] }
    ELSE IF /\ w.a.bt_state # A2DP_STATE_DISCONNECTED
            /\ w.a.is_a2dp_offload_supported
            /\ Bound(w.a, "audio_check_a2dp_ready")
    THEN { [w EXCEPT !.log = Append(@, Ev("audio_check_a2dp_ready", "", r = 1)), !.ret = r]
           : r \in {0, 1} }
    ELSE { [w EXCEPT !.ret = 0] }

IsReady ==
    /\ pc \in {"idle", "suspend_dm", "resume_dm"}
    /\ Returns("is_ready", audio_extn_a2dp_is_ready(World(<<>>)))

IsForceDeviceSwitch ==
    /\ pc \in {"idle", "suspend_dm", "resume_dm"}
    /\ Returns("is_force_device_switch",
               { [World(<<>>) EXCEPT
                    !.ret = IF audio_extn_a2dp_is_force_device_switch(a2dp) THEN 1 ELSE 0] })

\* the value of the vendor.audio.a2dp.codec.latency property as its fields
\* between '/' characters: a decimal number or some other text
Num(n) == [digits |-> TRUE, n |-> n]

Text == [digits |-> FALSE, n |-> 0]

\* the property values of the runs: unset, five numbers, five negative
\* numbers, a number that cancels the sink latency but for one, five numbers
\* and more, three numbers, text, and a number where text follows
LatencyProps ==
    { <<>>,
      <<Num(1), Num(2), Num(3), Num(4), Num(5)>>,
      <<Num(-200), Num(-200), Num(-200), Num(-200), Num(-200)>>,
      <<Num(-141), Num(0), Num(0), Num(0), Num(0)>>,
      <<Num(1), Num(2), Num(3), Num(4), Num(5), Text>>,
      <<Num(1), Num(2), Num(3)>>,
      <<Text>>,
      <<Num(1), Text, Num(3), Num(4), Num(5)>> }

\* property_get: the length of the value, 0 when the property is unset
property_get(value) == Len(value)

\* sscanf(value, "%d/%d/%d/%d/%d", ...): the number of leading fields
\* converted, at most five
RECURSIVE sscanf_5d(_)
sscanf_5d(value) ==
    IF value = <<>> \/ ~Head(value).digits THEN 0
    ELSE LET rest == sscanf_5d(Tail(value))
         IN  IF rest >= 4 THEN 5 ELSE 1 + rest

\* the offset sscanf stored in the k-th int, 0 when it did not reach it
avsync_offset(value, k) == IF sscanf_5d(value) >= k THEN value[k].n ELSE 0

\* the DEFAULT_SINK_LATENCY_* constant added for each codec
sink_latency(fmt) ==
    CASE fmt = ENC_CODEC_TYPE_SBC -> DEFAULT_SINK_LATENCY_SBC
      [] fmt = ENC_CODEC_TYPE_APTX -> DEFAULT_SINK_LATENCY_APTX
      [] fmt = ENC_CODEC_TYPE_APTX_HD -> DEFAULT_SINK_LATENCY_APTX_HD
      [] fmt = ENC_CODEC_TYPE_AAC -> DEFAULT_SINK_LATENCY_AAC
      [] fmt = ENC_CODEC_TYPE_LDAC -> DEFAULT_SINK_LATENCY_LDAC

\* a uint32_t as its two 16-bit halves
U16 == 65536

\* the conversion of an int to uint32_t: the value modulo 2^32
to_uint32(n) ==
    IF n >= 0
    THEN [hi |-> n \div U16, lo |-> n % U16]
    ELSE LET m == (n + 2147483647) + 1
         IN  [hi |-> 32768 + (m \div U16), lo |-> m % U16]

\* x += k on a uint32_t, for a k below 2^16: the sum modulo 2^32
uint32_add(x, k) ==
    [hi |-> (x.hi + ((x.lo + k) \div U16)) % U16, lo |-> (x.lo + k) % U16]

\* audio_extn_a2dp_get_encoder_latency, on the struct and the property value
audio_extn_a2dp_get_encoder_latency(a, value) ==
    LET avsync_runtime_prop ==
            IF property_get(value) > 0 /\ sscanf_5d(value) # 5 THEN 0
            ELSE property_get(value)
        fmt == a.bt_encoder_format
    IN  CASE fmt = ENC_CODEC_TYPE_SBC ->
               uint32_add(to_uint32(IF avsync_runtime_prop > 0 THEN avsync_offset(value, 1)
                                    ELSE ENCODER_LATENCY_SBC), sink_latency(fmt))
          [] fmt = ENC_CODEC_TYPE_APTX ->
               uint32_add(to_uint32(IF avsync_runtime_prop > 0 THEN avsync_offset(value, 2)
                                    ELSE ENCODER_LATENCY_APTX), sink_latency(fmt))
          [] fmt = ENC_CODEC_TYPE_APTX_HD ->
               uint32_add(to_uint32(IF avsync_runtime_prop > 0 THEN avsync_offset(value, 3)
                                    ELSE ENCODER_LATENCY_APTX_HD), sink_latency(fmt))
          [] fmt = ENC_CODEC_TYPE_AAC ->
               uint32_add(to_uint32(IF avsync_runtime_prop > 0 THEN avsync_offset(value, 4)
                                    ELSE ENCODER_LATENCY_AAC), sink_latency(fmt))
          [] fmt = ENC_CODEC_TYPE_LDAC ->
               uint32_add(to_uint32(IF avsync_runtime_prop > 0 THEN avsync_offset(value, 5)
                                    ELSE ENCODER_LATENCY_LDAC), sink_latency(fmt))
          [] OTHER -> to_uint32(DEFAULT_ENCODER_LATENCY)

\* the uint32_t the query returns is kept as its two halves in ret
GetEncoderLatency ==
    /\ pc \in {"idle", "suspend_dm", "resume_dm"}
    /\ \E value \in LatencyProps :
          Returns("get_encoder_latency",
                  { [World(<<Got("property_get", "", value)>>) EXCEPT
                       !.ret = audio_extn_a2dp_get_encoder_latency(a2dp, value)] })

\* set_parameters(A2dpSuspended = value), from entry to the first unlock or
\* to the return; n use-cases of usecase_list are PCM playback on A2DP
A2dpSuspended(max_usecases) ==
    \E value \in {"true", "false"}, n \in 0..max_usecases :
      LET w == World(<<>>)
          name == "suspend_" \o value
      IN  IF set_parameters_ignored(a2dp) \/ ~suspend_session_open(a2dp)
          THEN HandlerStep(name, {w}, Pos("idle", 0), "idle", 0)
          ELSE IF suspend_enter_cond(value, a2dp)
          THEN LET s == [w EXCEPT !.a.a2dp_suspended = TRUE]
               IN  IF n = 0
                   THEN HandlerStep(name, suspend_finish(s), Pos("idle", 0), "idle", 0)
                   ELSE HandlerStep(name,
                            { [s EXCEPT !.log = unlock_and_restore(@, FALSE)] },
                            Pos("idle", 0), "suspend_dm", n)
          ELSE IF suspend_leave_cond(value, a2dp)
          THEN IF n = 0
               THEN HandlerStep(name, resume_begin(w), Pos("idle", 0), "idle", 0)
               ELSE HandlerStep(name,
                        { [x EXCEPT !.log = unlock_and_restore(@, TRUE)]
                          : x \in resume_begin(w) },
                        Pos("idle", 0), "resume_dm", n)
          ELSE HandlerStep(name, {w}, Pos("idle", 0), "idle", 0)

SetSuspended ==
    /\ BagCardinality(InFlight) < MaxHandlers
    /\ A2dpSuspended(MaxUsecases)

\* the same signal on a device with up to MaxHandlerUsecases use-cases
SetSuspendedMany ==
    /\ BagCardinality(InFlight) < MaxHandlers
    /\ A2dpSuspended(MaxHandlerUsecases)

\* check_a2dp_restore returns in one of the handlers in flight, the handler
\* takes adev->lock again and runs to the next unlock or to its return
DmReturn ==
    \E h \in BagToSet(InFlight) :
       LET w == [World(<<>>) EXCEPT !.log = Append(@, Ev("pthread_mutex_lock", "", TRUE))]
       IN  IF h.uc_left > 1
           THEN HandlerStep("dm_return",
                    { [w EXCEPT !.log = unlock_and_restore(@, h.pc = "resume_dm")] },
                    h, h.pc, h.uc_left - 1)
           ELSE IF h.pc = "suspend_dm"
           THEN HandlerStep("dm_return", suspend_finish(w), h, "idle", 0)
           ELSE HandlerStep("dm_return", {w}, h, "idle", 0)

\* the struct after audio_extn_a2dp_init, before update_offload_codec_support
a2dp_init_fields ==
    [ bt_lib_handle |-> FALSE,
      fnptrs |-> {},
      bt_state |-> A2DP_STATE_DISCONNECTED,
      bt_encoder_format |-> ENC_CODEC_TYPE_INVALID,
      enc_sampling_rate |-> 48000,
      enc_channels |-> 0,
      a2dp_started |-> FALSE,
      a2dp_suspended |-> FALSE,
      a2dp_total_active_session_request |-> 0,
      is_a2dp_offload_supported |-> FALSE,
      is_handoff_in_progress |-> FALSE,
      is_aptx_dual_mono_supported |-> FALSE ]

\* the mixer controls before this file writes them
mixer_init ==
    [ c \in MixerCtlNames |->
        CASE c = MIXER_ENC_CONFIG_BLOCK -> [ unset |-> TRUE ]
          [] c = MIXER_SCRAMBLER_MODE -> 0
          [] OTHER -> "unset" ]

\* audio_extn_a2dp_init: the fields, reset_a2dp_enc_config_params, then the
\* offload property
Init ==
    /\ lib_exports \in LibVariants
    /\ mixer_ctls \in MixerProfiles
    /\ flaky \in BOOLEAN
    /\ \/ NominalEnv
       \/ lib_exports = IpcOps /\ ~flaky
       \/ mixer_ctls = MixerCtlNames /\ ~flaky
    /\ \E offload \in BOOLEAN :
       \E w \in reset_a2dp_enc_config_params(
                   [a |-> a2dp_init_fields, m |-> mixer_init, rejected |-> 0, log |-> <<>>,
                    ret |-> 0, done |-> FALSE, ok |-> FALSE, crashed |-> FALSE,
                    codec_configs |-> SessionConfigs]) :
          /\ a2dp = [w.a EXCEPT !.is_a2dp_offload_supported = offload]
          /\ mixer = w.m
          /\ rejected = w.rejected
    /\ op = "init"
    /\ ret = 0
    /\ calls = <<>>
    /\ pc = "idle"
    /\ uc_left = 0
    /\ hcalls = <<>>
    /\ waiting = EmptyBag
    /\ stepped = Pos("idle", 0)
    /\ crashed = FALSE

Next ==
    \/ Connect
    \/ Disconnect
    \/ StartPlayback
    \/ StopPlayback
    \/ SetSuspended
    \/ DmReturn

Spec == Init /\ [][Next]_vars

\* the states after construction with a driver that accepts every write
InitSteady ==
    /\ Init
    /\ ~flaky

\* the same entry points on a driver that accepts every write
SpecSteady == InitSteady /\ [][Next]_vars

\* connect, disconnect, start_playback and stop_playback with no suspend
\* signal, in every environment
NextSession ==
    \/ Connect
    \/ Disconnect
    \/ StartPlayback
    \/ StopPlayback

SpecSession == Init /\ [][NextSession]_vars

\* the entry points of Next and the readiness query, on a driver that
\* accepts every write
NextReady ==
    \/ Next
    \/ IsReady

SpecReady == InitSteady /\ [][NextReady]_vars

\* the entry points of Next and the queries that read the session
NextQueries ==
    \/ Next
    \/ SetHandoffMode
    \/ IsReady
    \/ IsForceDeviceSwitch

SpecQueries == Init /\ [][NextQueries]_vars

\* the states after construction with the whole library, every mixer
\* control and a driver that accepts every write
InitNominal ==
    /\ Init
    /\ lib_exports = IpcOps
    /\ mixer_ctls = MixerCtlNames
    /\ ~flaky

\* the A2dpSuspended handler with several use-cases to walk, next to
\* connect, disconnect, start_playback and stop_playback
NextHandler ==
    \/ Connect
    \/ Disconnect
    \/ StartPlayback
    \/ StopPlayback
    \/ SetSuspendedMany
    \/ DmReturn

SpecHandler == InitNominal /\ [][NextHandler]_vars

\* audio_extn_a2dp_start_playback with audio_get_codec_config handing back
\* any of NegotiatedConfigs
StartPlaybackNegotiated ==
    /\ a2dp.a2dp_total_active_session_request < MaxSessions
    /\ Returns("start",
               audio_extn_a2dp_start_playback(
                   [World(<<>>) EXCEPT !.codec_configs = NegotiatedConfigs]))

\* audio_extn_a2dp_start_playback with audio_get_codec_config handing back
\* any of CodecConfigs, one block of every codec
StartPlaybackAnyCodec ==
    /\ a2dp.a2dp_total_active_session_request < MaxSessions
    /\ Returns("start",
               audio_extn_a2dp_start_playback(
                   [World(<<>>) EXCEPT !.codec_configs = CodecConfigs]))

\* configure_a2dp_encoder_format called on its own (it has external
\* linkage); the bool it returns is 0 or 1
ConfigureEncoderFormat ==
    /\ ~crashed
    /\ Returns("configure",
               { [x EXCEPT !.ret = IF x.ok THEN 1 ELSE 0]
                 : x \in configure_a2dp_encoder_format(
                             [World(<<>>) EXCEPT !.codec_configs = NegotiatedConfigs]) })

\* connect, start_playback and the encoder configuration on its own, over
\* the range of the codec parameters
NextEncoder ==
    \/ Connect
    \/ StartPlaybackNegotiated
    \/ ConfigureEncoderFormat

SpecEncoder == InitNominal /\ [][NextEncoder]_vars

\* connect, disconnect, start_playback, stop_playback and the suspend signal,
\* with the encoder-latency query between them
NextLatency ==
    \/ Connect
    \/ Disconnect
    \/ StartPlaybackAnyCodec
    \/ StopPlayback
    \/ SetSuspended
    \/ DmReturn
    \/ GetEncoderLatency

SpecLatency == InitSteady /\ [][NextLatency]_vars

\* start_playback and stop_playback calls on a session that connect opened,
\* with no disconnect and no suspend signal
NextStartStop ==
    \/ Connect
    \/ StartPlayback
    \/ StopPlayback

SpecStartStop == Init /\ [][NextStartStop]_vars

(* ------------------------------ properties ---------------------------- *)
Requests(a) == a.a2dp_total_active_session_request

\* C1: a start_playback call made while a2dp_suspended is set, with the
\* handle, audio_stream_start and audio_get_codec_config bound, returns the
\* error (-ENOSYS), does not call audio_stream_start and leaves the session
\* request count as it was.
C1_StartWhileSuspendedRejected ==
    [][ (op' = "start" /\ a2dp.a2dp_suspended /\ ~start_unavailable(a2dp))
        => /\ ret' = -ENOSYS
           /\ "audio_stream_start" \notin Fns(calls')
           /\ Requests(a2dp') = Requests(a2dp) ]_vars

C1_Witness ==
    /\ op = "start"
    /\ a2dp.a2dp_suspended
    /\ ~start_unavailable(a2dp)
    /\ ret = -ENOSYS
    /\ Requests(a2dp) > 0

\* C2: an A2dpSuspended=true signal that arrives while a2dp_suspended is
\* already set changes nothing: the struct is as before, no IPC call and no
\* check_a2dp_restore call is made, the handler returns at once.
C2_RepeatedSuspendTrueIsNoOp ==
    [][ (op' = "suspend_true" /\ a2dp.a2dp_suspended)
        => /\ a2dp' = a2dp
           /\ hcalls' = <<>>
           /\ pc' = "idle" ]_vars

\* C3: an A2dpSuspended=false signal that arrives while a2dp_suspended is
\* clear changes no session field, makes no IPC call and requests no
\* use-case restore.
C3_ResumeWhileNotSuspendedIsNoOp ==
    [][ (op' = "suspend_false" /\ ~a2dp.a2dp_suspended)
        => /\ a2dp' = a2dp
           /\ mixer' = mixer
           /\ hcalls' = <<>>
           /\ pc' = "idle" ]_vars

C3_Witness ==
    /\ op = "suspend_false"
    /\ suspend_session_open(a2dp)
    /\ Bound(a2dp, "clear_a2dp_suspend_flag")
    /\ ~a2dp.a2dp_suspended
    /\ hcalls = <<>>
    /\ a2dp.a2dp_started

\* C4: after stop_playback followed by disconnect the negotiated
\* sample rate is 48000, the channel count is unset (0) and no codec is
\* active.
C4_StopDisconnectRestores48000 ==
    [][ (op = "stop" /\ op' = "disconnect")
        => /\ a2dp'.enc_sampling_rate = 48000
           /\ a2dp'.enc_channels = 0
           /\ ~IsCodec(a2dp'.bt_encoder_format) ]_vars

\* C5: the session request count is never negative, whatever connect,
\* disconnect, start, stop and suspend/resume calls are made, and a
\* stop_playback call made at count zero leaves it at zero.
C5_CountNeverNegative ==
    /\ [](Requests(a2dp) >= 0)
    /\ [][ (op' = "stop" /\ Requests(a2dp) = 0) => Requests(a2dp') = 0 ]_vars

\* a stop on a connected session that has not configured a codec since init
C5_Witness ==
    /\ op = "stop"
    /\ ret = 0
    /\ a2dp.bt_state = A2DP_STATE_CONNECTED
    /\ a2dp.enc_sampling_rate = 48000
    /\ a2dp.enc_channels = 0
    /\ Requests(a2dp) = 0

\* C6: in runs of start_playback and stop_playback on a connected session,
\* a stop that takes the count from 1 to 0 calls audio_stream_stop exactly
\* once, and a stop after which the count is still positive does not call
\* it.
C6_IpcStopOncePerLastStop ==
    [][ op' = "stop"
        => /\ (Requests(a2dp) = 1 /\ Requests(a2dp') = 0)
                => CountFn(calls', "audio_stream_stop") = 1
           /\ Requests(a2dp') > 0
                => CountFn(calls', "audio_stream_stop") = 0 ]_vars

C6_Witness ==
    /\ op = "stop"
    /\ a2dp.bt_state = A2DP_STATE_CONNECTED
    /\ Requests(a2dp) = 0
    /\ CountFn(calls, "audio_stream_stop") = 1

\* C7: whenever the path is started the connection state is not
\* Disconnected: start_playback never sets a2dp_started on a disconnected
\* session.
C7_StartedImpliesConnected ==
    a2dp.a2dp_started => a2dp.bt_state # A2DP_STATE_DISCONNECTED

\* C8 as claimed: stop_playback returns 0 in every state, also when the
\* handle or audio_stream_stop is not bound.
C8_StopAlwaysSucceeds ==
    [][ op' = "stop" => ret' = 0 ]_vars

\* C8 as amended: stop_playback returns 0 whenever the handle is loaded and
\* audio_stream_stop is bound, also when audio_stream_stop fails; otherwise
\* it returns -ENOSYS, makes no call and changes nothing.
C8_StopSucceedsWhenBound ==
    [][ op' = "stop"
        => IF stop_unavailable(a2dp)
           THEN ret' = -ENOSYS /\ calls' = <<>> /\ a2dp' = a2dp /\ mixer' = mixer
           ELSE ret' = 0 ]_vars

C8_Witness ==
    /\ op = "stop"
    /\ ret = 0
    /\ \E i \in DOMAIN calls : calls[i].fn = "audio_stream_stop" /\ ~calls[i].ok

\* C9: with the handle loaded and audio_stream_close bound, disconnect ends
\* Disconnected, not started, not suspended, with count 0 and no codec,
\* whatever audio_stream_close returned and whatever the state before.
C9_DisconnectResetsSession ==
    [][ (op' = "disconnect" /\ a2dp.bt_lib_handle /\ Bound(a2dp, "audio_stream_close"))
        => /\ a2dp'.bt_state = A2DP_STATE_DISCONNECTED
           /\ ~a2dp'.a2dp_started
           /\ ~a2dp'.a2dp_suspended
           /\ Requests(a2dp') = 0
           /\ ~IsCodec(a2dp'.bt_encoder_format) ]_vars

\* a disconnect whose audio_stream_close call reported failure
C9_Witness ==
    /\ op = "disconnect"
    /\ ret = 0
    /\ \E i \in DOMAIN calls : calls[i].fn = "audio_stream_close" /\ ~calls[i].ok
    /\ a2dp.bt_state = A2DP_STATE_DISCONNECTED
    /\ Requests(a2dp) = 0

\* C10: connect on a session that is not Disconnected fails with -ENOSYS,
\* does not call audio_stream_open and leaves every session field unchanged.
C10_ConnectWhileConnectedRejected ==
    [][ (op' = "connect" /\ a2dp.bt_state # A2DP_STATE_DISCONNECTED)
        => /\ ret' = -ENOSYS
           /\ "audio_stream_open" \notin Fns(calls')
           /\ a2dp' = a2dp
           /\ mixer' = mixer ]_vars

C10_Witness ==
    /\ op = "connect"
    /\ ret = -ENOSYS
    /\ a2dp.bt_state = A2DP_STATE_CONNECTED
    /\ calls = <<>>

\* position of the first call of fn in a trace, 0 when it was not called
FirstCall(log, fn) ==
    IF fn \in Fns(log)
    THEN CHOOSE i \in DOMAIN log :
             log[i].fn = fn /\ \A j \in DOMAIN log : log[j].fn = fn => i <= j
    ELSE 0

\* a trace entry of fn that reported failure
Failed(log, fn) == \E i \in DOMAIN log : log[i].fn = fn /\ ~log[i].ok

\* C11: a connect whose audio_stream_open call returns non-zero returns that
\* status, ends with the library handle released (dlclose) and the state
\* Disconnected; a connect that starts without a handle calls dlopen and
\* resolves the symbols before it calls audio_stream_open.
C11_OpenFailureReleasesHandle ==
    [][ /\ (op' = "connect" /\ Failed(calls', "audio_stream_open"))
           => /\ ret' # 0
              /\ ~a2dp'.bt_lib_handle
              /\ calls'[Len(calls')].fn = "dlclose"
              /\ a2dp'.bt_state = A2DP_STATE_DISCONNECTED
        /\ (op' = "connect" /\ ~a2dp.bt_lib_handle /\ "audio_stream_open" \in Fns(calls'))
           => /\ 0 < FirstCall(calls', "dlopen")
              /\ FirstCall(calls', "dlopen") < FirstCall(calls', "dlsym")
              /\ FirstCall(calls', "dlsym") < FirstCall(calls', "audio_stream_open")
              /\ a2dp'.fnptrs = lib_exports ]_vars

\* a connect that failed at audio_stream_open: the handle is released, the
\* pointers of the closed library are still in the struct
C11_Witness ==
    /\ op = "connect"
    /\ Failed(calls, "audio_stream_open")
    /\ ret # 0
    /\ ~a2dp.bt_lib_handle
    /\ a2dp.fnptrs # {}
    /\ a2dp.bt_state = A2DP_STATE_DISCONNECTED

\* the session fields the start/stop claims speak about
SessionFields(a) ==
    << a.a2dp_total_active_session_request, a.a2dp_started, a.enc_sampling_rate,
       a.enc_channels, a.bt_encoder_format >>

\* C12: a start_playback call that returns an error (guard failed, suspended,
\* audio_stream_start non-zero, encoder configuration failed) leaves the
\* request count, a2dp_started, enc_sampling_rate, enc_channels and
\* bt_encoder_format as they were before the call.
C12_FailedStartKeepsSession ==
    [][ (op' = "start" /\ ret' # 0) => SessionFields(a2dp') = SessionFields(a2dp) ]_vars

\* a start rejected because the session is suspended, on a path that is
\* started with one session request
C12_Witness ==
    /\ op = "start"
    /\ ret = -ENOSYS
    /\ calls = <<>>
    /\ a2dp.a2dp_suspended
    /\ a2dp.a2dp_started
    /\ Requests(a2dp) = 1
    /\ a2dp.bt_lib_handle
    /\ Bound(a2dp, "audio_stream_start")
    /\ Bound(a2dp, "audio_get_codec_config")

\* a successful call of fn in a trace
Succeeded(log, fn) == \E i \in DOMAIN log : log[i].fn = fn /\ log[i].ok

\* a write to mixer control ctl in a trace, landed or rejected
Wrote(log, ctl) == \E i \in DOMAIN log : log[i].fn = "mixer_ctl_set" /\ log[i].arg = ctl

\* C13: start_playback calls audio_stream_start only when the request count
\* is 0 and the path is not started. Of two start_playback calls in a row,
\* the first having started the stream (count 1), the second calls neither
\* audio_stream_start nor audio_get_codec_config and does not write the
\* encoder block, still queries the scrambler and writes the backend sample
\* rate, returns 0 and sets the count to 2.
C13_SecondStartSkipsIpcStart ==
    [][ /\ (op' = "start" /\ "audio_stream_start" \in Fns(calls'))
           => (Requests(a2dp) = 0 /\ ~a2dp.a2dp_started)
        /\ (op = "start" /\ ret = 0 /\ Succeeded(calls, "audio_stream_start") /\ op' = "start")
           => /\ Requests(a2dp) = 1
              /\ "audio_stream_start" \notin Fns(calls')
              /\ "audio_get_codec_config" \notin Fns(calls')
              /\ ~Wrote(calls', MIXER_ENC_CONFIG_BLOCK)
              /\ (Bound(a2dp, "audio_is_scrambling_enabled")
                    /\ a2dp.bt_state # A2DP_STATE_DISCONNECTED)
                 => "audio_is_scrambling_enabled" \in Fns(calls')
              /\ mixer_get_ctl_by_name(MIXER_SAMPLE_RATE) => Wrote(calls', MIXER_SAMPLE_RATE)
              /\ ret' = 0
              /\ Requests(a2dp') = 2 ]_vars

\* the second of two starts on a connected session
C13_Witness ==
    /\ op = "start"
    /\ ret = 0
    /\ Requests(a2dp) = 2
    /\ a2dp.a2dp_started
    /\ a2dp.bt_state = A2DP_STATE_CONNECTED
    /\ "audio_stream_start" \notin Fns(calls)
    /\ "audio_is_scrambling_enabled" \in Fns(calls)
    /\ Wrote(calls, MIXER_SAMPLE_RATE)
    /\ Wrote(calls, MIXER_AFE_IN_CHANNELS)

\* a step of the A2dpSuspended handler that takes the resume branch
LeavesSuspend ==
    /\ op' \in {"suspend_true", "suspend_false"}
    /\ ~set_parameters_ignored(a2dp)
    /\ suspend_session_open(a2dp)
    /\ a2dp.a2dp_suspended

\* C14: the step that leaves suspend clears a2dp_suspended, calls
\* audio_stream_start exactly once when the request count is positive and
\* not at all when it is 0, and changes no other field except a2dp_started,
\* which it clears when that audio_stream_start failed; the request count is
\* as before. The rest of the resume handler changes no field and makes no
\* IPC start.
C14_ResumeRestartsOnce ==
    [][ /\ LeavesSuspend
           => /\ ~a2dp'.a2dp_suspended
              /\ CountFn(hcalls', "audio_stream_start")
                    = (IF Requests(a2dp) > 0 THEN 1 ELSE 0)
              /\ Requests(a2dp') = Requests(a2dp)
              /\ a2dp' = [a2dp EXCEPT !.a2dp_suspended = FALSE,
                                      !.a2dp_started =
                                          IF Failed(hcalls', "audio_stream_start")
                                          THEN FALSE ELSE @]
              /\ mixer' = mixer
        /\ (op' = "dm_return" /\ stepped'.pc = "resume_dm")
           => /\ a2dp' = a2dp
              /\ "audio_stream_start" \notin Fns(hcalls') ]_vars

\* a resume with one active, started session whose audio_stream_start failed
C14_Witness ==
    /\ op = "suspend_false"
    /\ Failed(hcalls, "audio_stream_start")
    /\ CountFn(hcalls, "audio_stream_start") = 1
    /\ ~a2dp.a2dp_suspended
    /\ ~a2dp.a2dp_started
    /\ Requests(a2dp) = 1

\* a step of the A2dpSuspended handler that takes the suspend branch
EntersSuspend ==
    /\ op' = "suspend_true"
    /\ ~set_parameters_ignored(a2dp)
    /\ suspend_session_open(a2dp)
    /\ ~a2dp.a2dp_suspended

\* the step of the suspend branch that runs what follows its list_for_each
SuspendFinishes ==
    \/ EntersSuspend /\ pc' = "idle"
    \/ op' = "dm_return" /\ stepped'.pc = "suspend_dm" /\ pc' = "idle"

\* C15: the step that enters suspend sets a2dp_suspended; the handler asks
\* check_a2dp_restore(false) once for each use-case, one per lock-release
\* window; after the last one it writes the inert encoder block and the
\* default bit format (as far as the controls exist and the driver accepts
\* the writes), leaves no codec as the encoder format and calls
\* audio_stream_suspend once if it is bound. No step of the handler changes
\* the request count or a2dp_started.
C15_SuspendEntryEffects ==
    [][ /\ EntersSuspend
           => /\ a2dp'.a2dp_suspended
              /\ pc' = "suspend_dm"
                 => /\ uc_left' >= 1
                    /\ hcalls' = unlock_and_restore(<<>>, FALSE)
                    /\ a2dp' = [a2dp EXCEPT !.a2dp_suspended = TRUE]
        /\ (op' = "dm_return" /\ stepped'.pc = "suspend_dm" /\ pc' = "suspend_dm")
           => /\ uc_left' = stepped'.uc_left - 1
              /\ uc_left' >= 1
              /\ CountFn(hcalls', "check_a2dp_restore") = 1
              /\ a2dp' = a2dp
        /\ SuspendFinishes
           => /\ "check_a2dp_restore" \notin Fns(hcalls')
              /\ ~IsCodec(a2dp'.bt_encoder_format)
              /\ mixer_get_ctl_by_name(MIXER_ENC_CONFIG_BLOCK)
                 => Wrote(hcalls', MIXER_ENC_CONFIG_BLOCK)
              /\ mixer_get_ctl_by_name(MIXER_ENC_BIT_FORMAT)
                 => Wrote(hcalls', MIXER_ENC_BIT_FORMAT)
              /\ ~Failed(hcalls', "mixer_ctl_set")
                 => /\ mixer_get_ctl_by_name(MIXER_ENC_CONFIG_BLOCK)
                       => mixer'[MIXER_ENC_CONFIG_BLOCK] = dummy_reset_config
                    /\ mixer_get_ctl_by_name(MIXER_ENC_BIT_FORMAT)
                       => mixer'[MIXER_ENC_BIT_FORMAT]
                              = bit_format_str(DEFAULT_ENCODER_BIT_FORMAT)
              /\ CountFn(hcalls', "audio_stream_suspend")
                    = (IF Bound(a2dp, "audio_stream_suspend") THEN 1 ELSE 0)
        /\ (EntersSuspend \/ (op' = "dm_return" /\ stepped'.pc = "suspend_dm"))
           => /\ Requests(a2dp') = Requests(a2dp)
              /\ a2dp'.a2dp_started = a2dp.a2dp_started ]_vars

\* the suspend handler has finished after a lock-release window, on a
\* started path with one active session
C15_Witness ==
    /\ op = "dm_return"
    /\ pc = "idle"
    /\ "audio_stream_suspend" \in Fns(hcalls)
    /\ Wrote(hcalls, MIXER_ENC_CONFIG_BLOCK)
    /\ a2dp.a2dp_suspended
    /\ a2dp.a2dp_started
    /\ Requests(a2dp) = 1
    /\ a2dp.bt_encoder_format = ENC_MEDIA_FMT_NONE

\* C16: audio_extn_a2dp_is_ready returns false without calling the library
\* when the session is suspended, or offload is unsupported, or
\* audio_check_a2dp_ready is unbound, or the state is Disconnected; in every
\* other state it calls audio_check_a2dp_ready once and returns its result.
\* It changes nothing.
C16_ReadyOnlyWhenUsable ==
    [][ op' = "is_ready"
        => /\ IF \/ a2dp.a2dp_suspended
                 \/ ~a2dp.is_a2dp_offload_supported
                 \/ ~Bound(a2dp, "audio_check_a2dp_ready")
                 \/ a2dp.bt_state = A2DP_STATE_DISCONNECTED
              THEN ret' = 0 /\ calls' = <<>>
              ELSE calls' = << Ev("audio_check_a2dp_ready", "", ret' = 1) >>
           /\ a2dp' = a2dp
           /\ mixer' = mixer ]_vars

\* the query on a connected, suspended session with the ready check bound
C16_Witness ==
    /\ op = "is_ready"
    /\ a2dp.a2dp_suspended
    /\ a2dp.bt_state = A2DP_STATE_CONNECTED
    /\ a2dp.is_a2dp_offload_supported
    /\ Bound(a2dp, "audio_check_a2dp_ready")
    /\ ret = 0
    /\ calls = <<>>

\* C17: after a start_playback call that was rejected because the session is
\* suspended, audio_extn_a2dp_is_force_device_switch returns true, also when
\* a session had been started before the suspend.
C17_RejectedStartForcesSwitch ==
    [][ (/\ op = "start"
         /\ ret = -ENOSYS
         /\ a2dp.a2dp_suspended
         /\ ~start_unavailable(a2dp)
         /\ op' = "is_force_device_switch")
        => ret' = 1 ]_vars

\* C18: a start_playback call that runs while the suspend branch of the
\* handler stands in a lock-release window is rejected: it returns an error,
\* does not call audio_stream_start and leaves the request count as it was.
C18_StartInSuspendWindowRejected ==
    [][ (InWindow("suspend_dm") /\ op' = "start")
        => /\ ret' # 0
           /\ "audio_stream_start" \notin Fns(calls')
           /\ Requests(a2dp') = Requests(a2dp) ]_vars

\* a step of the A2dpSuspended handler
HandlerRuns == op' \in {"suspend_true", "suspend_false", "dm_return"}

\* C19: in every step of the handler, check_a2dp_restore is called right
\* after pthread_mutex_unlock and is the last thing the handler does before
\* the window; the step that follows the window begins with
\* pthread_mutex_lock; between two windows the handler writes no session
\* field and no mixer control and moves to the next use-case; the handler
\* makes no call but check_a2dp_restore with the lock released, and the step
\* that returns leaves the lock held.
C19_LockReleasedAroundRestore ==
    [][ HandlerRuns
        => LET h == hcalls'
           IN  /\ \A i \in DOMAIN h :
                     /\ h[i].fn = "check_a2dp_restore"
                        => /\ i > 1
                           /\ h[i - 1].fn = "pthread_mutex_unlock"
                           /\ i = Len(h)
                           /\ pc' # "idle"
                           /\ h[i].arg = (IF pc' = "resume_dm" THEN "true" ELSE "false")
                     /\ h[i].fn = "pthread_mutex_unlock"
                        => i < Len(h) /\ h[i + 1].fn = "check_a2dp_restore"
                     /\ h[i].fn = "pthread_mutex_lock"
                        => i = 1 /\ op' = "dm_return"
               /\ op' = "dm_return"
                  => Len(h) >= 1 /\ h[1].fn = "pthread_mutex_lock"
               /\ pc' # "idle"
                  => /\ Len(h) >= 2
                     /\ h[Len(h)].fn = "check_a2dp_restore"
                     /\ uc_left' >= 1
               /\ pc' = "idle"
                  => /\ "pthread_mutex_unlock" \notin Fns(h)
                     /\ uc_left' = 0
               /\ (op' = "dm_return" /\ pc' # "idle")
                  => /\ h = unlock_and_restore(<< Ev("pthread_mutex_lock", "", TRUE) >>,
                                               stepped'.pc = "resume_dm")
                     /\ pc' = stepped'.pc
                     /\ uc_left' = stepped'.uc_left - 1
                     /\ a2dp' = a2dp
                     /\ mixer' = mixer ]_vars

\* the resume handler, back from the first of three use-cases, in the window
\* of the second
C19_Witness ==
    /\ op = "dm_return"
    /\ pc = "resume_dm"
    /\ uc_left = 2
    /\ Len(hcalls) = 3
    /\ hcalls[1].fn = "pthread_mutex_lock"
    /\ hcalls[2].fn = "pthread_mutex_unlock"
    /\ hcalls[3].fn = "check_a2dp_restore"

\* a rejected write to mixer control ctl in a trace
Rejected(log, ctl) ==
    \E i \in DOMAIN log : log[i].fn = "mixer_ctl_set" /\ log[i].arg = ctl /\ ~log[i].ok

\* C20: a stop_playback call that takes the request count from 1 to 0 on a
\* started path leaves bt_encoder_format = ENC_MEDIA_FMT_NONE and
\* a2dp_started false, whatever audio_stream_stop returned and whether or
\* not the mixer writes of that stop were accepted.
C20_LastStopClearsCodec ==
    [][ (/\ op' = "stop"
         /\ a2dp.a2dp_started
         /\ Requests(a2dp) = 1
         /\ Requests(a2dp') = 0)
        => /\ a2dp'.bt_encoder_format = ENC_MEDIA_FMT_NONE
           /\ ~a2dp'.a2dp_started
           /\ ret' = 0 ]_vars

\* the last stop of a started path whose audio_stream_stop failed and whose
\* write of the inert encoder block was rejected
C20_Witness ==
    /\ op = "stop"
    /\ Failed(calls, "audio_stream_stop")
    /\ Rejected(calls, MIXER_ENC_CONFIG_BLOCK)
    /\ a2dp.bt_encoder_format = ENC_MEDIA_FMT_NONE
    /\ ~a2dp.a2dp_started
    /\ Requests(a2dp) = 0

\* the stop_playback call that takes the request count of a started path to 0
LastStop ==
    /\ op' = "stop"
    /\ a2dp.a2dp_started
    /\ Requests(a2dp) = 1
    /\ Requests(a2dp') = 0

\* a disconnect event that reaches close_a2dp_output on a started path
DisconnectStarted ==
    /\ op' = "disconnect"
    /\ ~set_parameters_ignored(a2dp)
    /\ a2dp.a2dp_started

\* C21: after the stop_playback call that takes the count to 0, and after a
\* disconnect of a started path, the backend controls hold the idle values
\* ("KHZ_8" and "Zero") when both controls exist and the driver rejected no
\* write of that call.
C21_BackendResetOnStopAndDisconnect ==
    [][ (/\ LastStop \/ DisconnectStarted
         /\ mixer_get_ctl_by_name(MIXER_SAMPLE_RATE)
         /\ mixer_get_ctl_by_name(MIXER_AFE_IN_CHANNELS)
         /\ ~Failed(calls', "mixer_ctl_set"))
        => /\ mixer'[MIXER_SAMPLE_RATE] = "KHZ_8"
           /\ mixer'[MIXER_AFE_IN_CHANNELS] = "Zero" ]_vars

\* a write to mixer control ctl in a trace that the driver accepted
Landed(log, ctl) ==
    \E i \in DOMAIN log : log[i].fn = "mixer_ctl_set" /\ log[i].arg = ctl /\ log[i].ok

\* a start_playback call that passed both guards and either found the path
\* started or started the stream and configured the encoder itself
StartEstablished ==
    /\ op' = "start"
    /\ ~start_unavailable(a2dp)
    /\ ~start_suspended(a2dp)
    /\ \/ a2dp.a2dp_started
       \/ /\ Succeeded(calls', "audio_stream_start")
          /\ Landed(calls', MIXER_ENC_CONFIG_BLOCK)
          /\ Landed(calls', MIXER_ENC_BIT_FORMAT)

\* C22: a start_playback call that found the path started, or started the
\* stream and configured the encoder, returns 0 with a2dp_started set and
\* the request count one higher, also when the scrambler control or a
\* backend control is missing or a write to them is rejected.
C22_BackendFailureDoesNotFailStart ==
    [][ StartEstablished
        => /\ ret' = 0
           /\ a2dp'.a2dp_started
           /\ Requests(a2dp') = Requests(a2dp) + 1 ]_vars

\* a successful first start whose backend sample-rate write was rejected
C22_Witness ==
    /\ op = "start"
    /\ ret = 0
    /\ Succeeded(calls, "audio_stream_start")
    /\ Rejected(calls, MIXER_SAMPLE_RATE)
    /\ a2dp.a2dp_started
    /\ Requests(a2dp) = 1

\* a call that reaches a2dp_set_backend_cfg or a2dp_reset_backend_cfg
BackendApplied == StartEstablished \/ LastStop

\* C23: whenever a2dp_set_backend_cfg or a2dp_reset_backend_cfg runs and the
\* input-channel control exists, the input-channel write is performed, also
\* when the sample-rate control is missing or the sample-rate write was
\* rejected.
C23_ChannelWriteSurvivesRateFailure ==
    [][ (BackendApplied /\ mixer_get_ctl_by_name(MIXER_AFE_IN_CHANNELS))
        => Wrote(calls', MIXER_AFE_IN_CHANNELS) ]_vars

\* the entries of a trace that write mixer control ctl
WritesOf(log, ctl) == { i \in DOMAIN log : log[i].fn = "mixer_ctl_set" /\ log[i].arg = ctl }

\* the entries of a trace made by a2dp_check_and_set_scrambler and by
\* a2dp_set_backend_cfg
ScramblerAndBackend(log) ==
    { i \in DOMAIN log : log[i].fn = "audio_is_scrambling_enabled" }
        \cup WritesOf(log, MIXER_SCRAMBLER_MODE)
        \cup WritesOf(log, MIXER_SAMPLE_RATE)
        \cup WritesOf(log, MIXER_AFE_IN_CHANNELS)

\* C24: in the trace of one start_playback call the encoder block is written
\* only after audio_stream_start succeeded and audio_get_codec_config was
\* called, in that order; a call that makes the IPC start raises the request
\* count only if the encoder block and the bit format were both written and
\* accepted; the scrambler query and the scrambler and backend writes come
\* after the bit-format write and only in a call that raised the count; a
\* call whose audio_stream_start failed writes no encoder block.
C24_StartStepsOrdered ==
    [][ op' = "start"
        => LET h == calls'
               started_at == FirstCall(h, "audio_stream_start")
               fetched_at == FirstCall(h, "audio_get_codec_config")
           IN  /\ \A i \in WritesOf(h, MIXER_ENC_CONFIG_BLOCK) :
                     /\ Succeeded(h, "audio_stream_start")
                     /\ 0 < started_at
                     /\ started_at < fetched_at
                     /\ fetched_at < i
               /\ ("audio_stream_start" \in Fns(h) /\ Requests(a2dp') # Requests(a2dp))
                  => /\ Landed(h, MIXER_ENC_CONFIG_BLOCK)
                     /\ Landed(h, MIXER_ENC_BIT_FORMAT)
               /\ \A i \in ScramblerAndBackend(h) :
                     /\ Requests(a2dp') = Requests(a2dp) + 1
                     /\ \A j \in WritesOf(h, MIXER_ENC_CONFIG_BLOCK)
                                   \cup WritesOf(h, MIXER_ENC_BIT_FORMAT) : j < i
               /\ Failed(h, "audio_stream_start") => ~Wrote(h, MIXER_ENC_CONFIG_BLOCK) ]_vars

\* a first start that went through every step
C24_Witness ==
    /\ op = "start"
    /\ ret = 0
    /\ Requests(a2dp) = 1
    /\ Len(calls) >= 7
    /\ calls[1] = Ev("audio_stream_start", "", TRUE)
    /\ calls[2].fn = "audio_get_codec_config"
    /\ calls[3] = Ev("mixer_ctl_set", MIXER_ENC_CONFIG_BLOCK, TRUE)
    /\ calls[4] = Ev("mixer_ctl_set", MIXER_ENC_BIT_FORMAT, TRUE)
    /\ calls[5].fn = "audio_is_scrambling_enabled"
    /\ Landed(calls, MIXER_SAMPLE_RATE)
    /\ Landed(calls, MIXER_AFE_IN_CHANNELS)

\* the codec parameter block audio_get_codec_config handed back in a trace
Negotiated(log) == log[FirstCall(log, "audio_get_codec_config")].val

\* a start_playback call that fetched a parameter block and had both encoder
\* writes accepted
StartConfigured ==
    /\ op' = "start"
    /\ "audio_get_codec_config" \in Fns(calls')
    /\ Landed(calls', MIXER_ENC_CONFIG_BLOCK)
    /\ Landed(calls', MIXER_ENC_BIT_FORMAT)

\* C25 as stated: after a start_playback call that configured the encoder,
\* an accepted write of "BT SampleRate" holds KHZ_88P2 for LDAC at 44100 and
\* KHZ_96 for LDAC at 48000, for every other codec KHZ_44P1, KHZ_48,
\* KHZ_88P2, KHZ_96 at 44100, 48000, 88200, 96000, and KHZ_48 at any other
\* rate (LDAC at 88200 and at 96000 included).
C25_BackendRateAsStated ==
    [][ (StartConfigured /\ Landed(calls', MIXER_SAMPLE_RATE))
          => LET c == Negotiated(calls')
                 ldac == c.codec_type = ENC_CODEC_TYPE_LDAC
                 r == c.info.sampling_rate
             IN  mixer'[MIXER_SAMPLE_RATE] =
                    ( CASE ldac /\ r = 44100 -> "KHZ_88P2"
                        [] ldac /\ r = 48000 -> "KHZ_96"
                        [] ~ldac /\ r = 44100 -> "KHZ_44P1"
                        [] ~ldac /\ r = 48000 -> "KHZ_48"
                        [] ~ldac /\ r = 88200 -> "KHZ_88P2"
                        [] ~ldac /\ r = 96000 -> "KHZ_96"
                        [] OTHER -> "KHZ_48" ) ]_vars

\* C25, amended: after a start_playback call that configured the encoder, an
\* accepted write of "BT SampleRate" holds KHZ_88P2 for LDAC at 44100 and
\* KHZ_96 for LDAC at 48000; for every codec, LDAC included, KHZ_88P2 at
\* 88200 and KHZ_96 at 96000; for every codec but LDAC KHZ_44P1 at 44100 and
\* KHZ_48 at 48000; KHZ_48 at any other rate. For LDAC with channel_mode 4
\* the block written has channel_mapping[0] = PCM_CHANNEL_C, the other
\* entries 0, and num_channels 1, and enc_channels is 1. An accepted write
\* of "AFE Input Channels" holds One when enc_channels is 1 and Two
\* otherwise.
C25_BackendRateAndChannels ==
    [][ StartConfigured
          => LET c == Negotiated(calls')
                 ldac == c.codec_type = ENC_CODEC_TYPE_LDAC
                 r == c.info.sampling_rate
             IN  /\ Landed(calls', MIXER_SAMPLE_RATE)
                    => mixer'[MIXER_SAMPLE_RATE] =
                         ( CASE ldac /\ r = 44100 -> "KHZ_88P2"
                             [] ldac /\ r = 48000 -> "KHZ_96"
                             [] r = 88200 -> "KHZ_88P2"
                             [] r = 96000 -> "KHZ_96"
                             [] ~ldac /\ r = 44100 -> "KHZ_44P1"
                             [] ~ldac /\ r = 48000 -> "KHZ_48"
                             [] OTHER -> "KHZ_48" )
                 /\ (ldac /\ c.info.channel_mode = 4)
                    => /\ mixer'[MIXER_ENC_CONFIG_BLOCK].custom_cfg.channel_mapping
                            = <<PCM_CHANNEL_C, 0, 0, 0, 0, 0, 0, 0>>
                       /\ mixer'[MIXER_ENC_CONFIG_BLOCK].custom_cfg.num_channels = 1
                       /\ a2dp'.enc_channels = 1
                 /\ Landed(calls', MIXER_AFE_IN_CHANNELS)
                    => mixer'[MIXER_AFE_IN_CHANNELS] =
                         (IF a2dp'.enc_channels = 1 THEN "One" ELSE "Two") ]_vars

\* LDAC at 48000 with channel_mode 4, started
C25_Witness ==
    /\ op = "start"
    /\ ret = 0
    /\ "audio_get_codec_config" \in Fns(calls)
    /\ Negotiated(calls).codec_type = ENC_CODEC_TYPE_LDAC
    /\ Negotiated(calls).info.sampling_rate = 48000
    /\ Negotiated(calls).info.channel_mode = 4
    /\ a2dp.enc_channels = 1
    /\ mixer[MIXER_SAMPLE_RATE] = "KHZ_96"
    /\ mixer[MIXER_AFE_IN_CHANNELS] = "One"

\* C26: after a start_playback call that configured the encoder from SBC
\* parameters, the block written has channel_mode Mono, Dual-Mono, Stereo,
\* Joint-Stereo for the channel index 0, 1, 2, 3 and Stereo for any other
\* index, alloc_method Loudness for a non-zero alloc and SNR for alloc 0,
\* and sample_rate equal to the negotiated rate; enc_channels is 1 when the
\* mode is Mono and 2 otherwise.
C26_SbcRecord ==
    [][ (StartConfigured /\ Negotiated(calls').codec_type = ENC_CODEC_TYPE_SBC)
        => LET c == Negotiated(calls').info
               blk == mixer'[MIXER_ENC_CONFIG_BLOCK]
           IN  /\ blk.enc_format = ENC_MEDIA_FMT_SBC
               /\ blk.channel_mode =
                    ( CASE c.channels = 0 -> MEDIA_FMT_SBC_CHANNEL_MODE_MONO
                        [] c.channels = 1 -> MEDIA_FMT_SBC_CHANNEL_MODE_DUAL_MONO
                        [] c.channels = 2 -> MEDIA_FMT_SBC_CHANNEL_MODE_STEREO
                        [] c.channels = 3 -> MEDIA_FMT_SBC_CHANNEL_MODE_JOINT_STEREO
                        [] OTHER -> MEDIA_FMT_SBC_CHANNEL_MODE_STEREO )
               /\ blk.alloc_method =
                    (IF c.alloc # 0 THEN MEDIA_FMT_SBC_ALLOCATION_METHOD_LOUDNESS
                     ELSE MEDIA_FMT_SBC_ALLOCATION_METHOD_SNR)
               /\ blk.sample_rate = c.sampling_rate
               /\ a2dp'.enc_sampling_rate = c.sampling_rate
               /\ a2dp'.enc_channels =
                    (IF blk.channel_mode = MEDIA_FMT_SBC_CHANNEL_MODE_MONO THEN 1 ELSE 2) ]_vars

\* stereo SBC parameters with alloc 0 at 44100, started
C26_Witness ==
    /\ op = "start"
    /\ ret = 0
    /\ "audio_get_codec_config" \in Fns(calls)
    /\ Negotiated(calls).codec_type = ENC_CODEC_TYPE_SBC
    /\ Negotiated(calls).info.channels = 2
    /\ Negotiated(calls).info.alloc = 0
    /\ Negotiated(calls).info.sampling_rate = 44100
    /\ mixer[MIXER_ENC_CONFIG_BLOCK].channel_mode = MEDIA_FMT_SBC_CHANNEL_MODE_STEREO
    /\ mixer[MIXER_ENC_CONFIG_BLOCK].alloc_method = MEDIA_FMT_SBC_ALLOCATION_METHOD_SNR
    /\ mixer[MIXER_ENC_CONFIG_BLOCK].sample_rate = 44100
    /\ a2dp.enc_channels = 2

\* an encoder-latency query that found the override property unset
LatencyQueryNoOverride ==
    /\ op' = "get_encoder_latency"
    /\ calls'[1].val = <<>>

\* the state a stop_playback call left with no session request, the state a
\* disconnect left, and a suspended session whose handler has returned
NoCodecExpected ==
    \/ op = "stop" /\ Requests(a2dp) = 0
    \/ op = "disconnect"
    \/ a2dp.a2dp_suspended /\ NoHandler

\* C27: an encoder-latency query that finds the override property unset
\* returns 10 + 140 for SBC, 40 + 160 for APTX, 20 + 180 for APTX-HD,
\* 70 + 180 for AAC, 40 + 180 for LDAC and 200 when bt_encoder_format is
\* none of them, and it returns 200 when it follows a stop_playback that left
\* no session request, a disconnect, or a completed entry into suspend.
C27_EncoderLatency ==
    [][ LatencyQueryNoOverride
        => /\ ret'.hi = 0
           /\ ret'.lo = ( CASE a2dp.bt_encoder_format = ENC_CODEC_TYPE_SBC -> 10 + 140
                            [] a2dp.bt_encoder_format = ENC_CODEC_TYPE_APTX -> 40 + 160
                            [] a2dp.bt_encoder_format = ENC_CODEC_TYPE_APTX_HD -> 20 + 180
                            [] a2dp.bt_encoder_format = ENC_CODEC_TYPE_AAC -> 70 + 180
                            [] a2dp.bt_encoder_format = ENC_CODEC_TYPE_LDAC -> 40 + 180
                            [] OTHER -> 200 )
           /\ NoCodecExpected => ret'.lo = 200 ]_vars

\* a set_parameters call: device connect, device disconnect, A2dpSuspended
ParameterEvent == op' \in {"connect", "disconnect", "suspend_true", "suspend_false"}

\* C28: while is_a2dp_offload_supported is false a set_parameters call
\* (connect, disconnect, A2dpSuspended) makes no external call, leaves every
\* field of the session and the mixer as they were and opens no handler
\* window, and bt_state stays A2DP_STATE_DISCONNECTED after every step.
C28_NoOffloadIgnoresParameters ==
    [][ ~a2dp.is_a2dp_offload_supported
        => /\ a2dp'.bt_state = A2DP_STATE_DISCONNECTED
           /\ ~a2dp'.is_a2dp_offload_supported
           /\ ParameterEvent
              => /\ a2dp' = a2dp
                 /\ mixer' = mixer
                 /\ calls' = <<>>
                 /\ hcalls' = <<>>
                 /\ pc' = "idle" ]_vars

\* a connect that was ignored
C28_Witness ==
    /\ op = "connect"
    /\ ~a2dp.is_a2dp_offload_supported
    /\ a2dp.bt_state = A2DP_STATE_DISCONNECTED
    /\ ~a2dp.bt_lib_handle
    /\ calls = <<>>

\* C29: a start_playback call that returns 0 leaves a2dp_started true and
\* the session request count one above what it was, also when it follows a
\* resume whose audio_stream_start failed with the count above 0.
C29_StartSuccessMeansStarted ==
    [][ (op' = "start" /\ ret' = 0)
        => /\ a2dp'.a2dp_started
           /\ Requests(a2dp') = Requests(a2dp) + 1 ]_vars

\* C30: in every reachable state with a2dp_started set and a2dp_suspended
\* clear, bt_encoder_format is one of the five codecs, also after a suspend
\* followed by a resume with a session request active.
C30_StartedImpliesCodec ==
    (a2dp.a2dp_started /\ ~a2dp.a2dp_suspended) => IsCodec(a2dp.bt_encoder_format)

\* C31: no step of the A2dpSuspended handler calls audio_stream_suspend with
\* bt_state = A2DP_STATE_DISCONNECTED, also when a disconnect ran while the
\* handler had released adev->lock.
C31_NoSuspendWhenDisconnected ==
    [][ "audio_stream_suspend" \in Fns(hcalls')
        => /\ a2dp.bt_state # A2DP_STATE_DISCONNECTED
           /\ a2dp'.bt_state # A2DP_STATE_DISCONNECTED ]_vars

\* C32: in every state between operations, a2dp_started set implies a
\* session request count of at least 1.
C32_StartedImpliesRequest ==
    a2dp.a2dp_started => Requests(a2dp) >= 1

\* a stop_playback that left one of two session requests on a started path
C32_Witness ==
    /\ op = "stop"
    /\ ret = 0
    /\ a2dp.a2dp_started
    /\ Requests(a2dp) = 1

\* the IPC operations a step called through the function pointers, open
\* excepted
IpcInvoked ==
    (Fns(calls') \cup Fns(hcalls'))
        \cap { "audio_stream_start", "audio_stream_stop", "audio_stream_close",
               "audio_stream_suspend", "clear_a2dp_suspend_flag", "audio_get_codec_config",
               "audio_is_scrambling_enabled", "audio_check_a2dp_ready" }

\* C33: after every step a bt_state other than A2DP_STATE_DISCONNECTED comes
\* with bt_lib_handle loaded, and no step calls audio_stream_start,
\* audio_stream_stop, audio_stream_close, audio_stream_suspend,
\* clear_a2dp_suspend_flag, audio_get_codec_config,
\* audio_is_scrambling_enabled or audio_check_a2dp_ready while bt_lib_handle
\* is released (no step that calls one of them changes the handle).
C33_NoIpcWithoutHandle ==
    [][ /\ a2dp'.bt_state # A2DP_STATE_DISCONNECTED => a2dp'.bt_lib_handle
        /\ IpcInvoked # {} => a2dp.bt_lib_handle /\ a2dp'.bt_lib_handle ]_vars

\* C34: audio_stream_open is called only with bt_state =
\* A2DP_STATE_DISCONNECTED and a successful call leaves A2DP_STATE_CONNECTED;
\* audio_stream_close is called only with bt_state other than
\* A2DP_STATE_DISCONNECTED and leaves A2DP_STATE_DISCONNECTED; bt_state
\* changes in no other step. Hence a successful open is followed by no open
\* before a close, and a close is preceded by a successful open no other
\* close has followed.
C34_OpenCloseAlternate ==
    [][ /\ "audio_stream_open" \in Fns(calls')
           => a2dp.bt_state = A2DP_STATE_DISCONNECTED
        /\ Succeeded(calls', "audio_stream_open")
           => a2dp'.bt_state = A2DP_STATE_CONNECTED
        /\ "audio_stream_close" \in Fns(calls')
           => /\ a2dp.bt_state # A2DP_STATE_DISCONNECTED
              /\ a2dp'.bt_state = A2DP_STATE_DISCONNECTED
              /\ CountFn(calls', "audio_stream_close") = 1
        /\ a2dp'.bt_state # a2dp.bt_state
           => \/ Succeeded(calls', "audio_stream_open")
              \/ "audio_stream_close" \in Fns(calls') ]_vars

\* a connect that opened the stream again on the handle an earlier connect
\* loaded, the stream having been closed in between
C34_Witness ==
    /\ op = "connect"
    /\ ret = 0
    /\ calls = <<Ev("audio_stream_open", "", TRUE)>>
    /\ a2dp.bt_state = A2DP_STATE_CONNECTED
====
